---- MODULE Spec2Model ----
(***************************************************************************)
(* The memory game's board component (GameBoardComponent): tile reveal     *)
(* state machine, mismatch timeout, session clock and completion effect,   *)
(* together with the browser's timer registry and wall clock.              *)
(* Also the board's geometry, the tile's markdown renderer, and the start  *)
(* screen (StartGameComponent).                                            *)
(***************************************************************************)
EXTENDS Integers, Sequences, FiniteSets, TLC

\* ---------------------------------------------------------------- bounds
\* most pairs the data provider returns for a collection
MaxAvailable == 3
\* largest value of the `pairs` query parameter
MaxRequested == 3
\* selections are offered while they leave attempts at most this
MaxAttempts == 2
\* longest array shuffle is called with on its own
MaxShuffleLen == 3
\* most segments a markdown payload is put together from
MaxSegments == 3
\* most pairs of a deck the board is laid out for
MaxLayoutPairs == 6
\* formatElapsed is called with whole seconds from -MaxFormatSeconds to
\* MaxFormatSeconds
MaxFormatSeconds == 6005
\* most window resize events of a board
MaxResizes == 1
\* most pairs of a small collection on the start screen
MaxPairCount == 3
\* most collections the server lists
MaxCollections == 2
\* the pairs and columns inputs hold values up to MaxInput + 1/2
MaxInput == 5
\* the wall clock (ms) stops advancing here
MaxTime == 1000
\* one step of the wall clock (ms)
TimeStep == 500
\* Math.random() is drawn at this resolution: its values are r / RandomResolution
RandomResolution == 2

\* ------------------------------------------------------- program constants
\* `null` of the component's nullable number fields
NULL == -1
\* divisor of the elapsed-time computation (ms per second)
MsPerSecond == 1000
\* fewest pairs a session needs
MinPairs == 2

NoError == "null"

\* GAME_CONFIG.defaultTileColumns
defaultTileColumns == 6
\* the layout's sizes in px
baseGapPx == 16
minGapPx == 8
maxGapPx == 24
minTileSizePx == 32

VARIABLES
    \* GameBoardComponent fields and signals
    tiles, revealedTileIds, attempts, pendingHideTimeout, loading, error,
    pairsToFind, tileIdCounter,
    timerInterval, gameStartedAt, accumulatedSeconds, elapsedSeconds,
    \* the browser: scheduled setTimeout / setInterval handles, Date.now()
    timeouts, intervals, now,
    \* the component's lifecycle: outstanding HTTP request, the `pairs`
    \* parameter captured by loadCollection, destroyed flag, and whether the
    \* allPairsFound effect is scheduled to run
    request, requestedPairs, destroyed, effectDirty,
    \* history: the outcome of the latest tileSelected event and the number of
    \* accepted selections
    last, acceptedCount,
    \* the board's geometry: the columns and boardStyle signals, the `columns`
    \* parameter captured by loadCollection, the column and row counts the
    \* layout effect last ran with, the number of requestAnimationFrame
    \* callbacks waiting, the window and the board's place in it, and the
    \* number of resize events so far
    columns, boardStyle, requestedColumns, layoutSeen, frames, viewport, resizes,
    \* a function of the program called on its own: its name, its arguments
    \* and, once it has returned, its result
    call,
    \* the start screen (StartGameComponent): its signals, the outstanding
    \* listCollections request and the route it has navigated to
    start

progVars == <<tiles, revealedTileIds, attempts, pendingHideTimeout, loading, error,
              pairsToFind, tileIdCounter, timerInterval, gameStartedAt,
              accumulatedSeconds, elapsedSeconds, timeouts, intervals>>

vars == <<tiles, revealedTileIds, attempts, pendingHideTimeout, loading, error,
          pairsToFind, tileIdCounter, timerInterval, gameStartedAt,
          accumulatedSeconds, elapsedSeconds, timeouts, intervals, now,
          request, requestedPairs, destroyed, effectDirty, last, acceptedCount,
          columns, boardStyle, requestedColumns, layoutSeen, frames, viewport,
          resizes, call, start>>

\* the board's geometry
boardVars == <<columns, boardStyle, layoutSeen, frames, viewport, resizes>>

\* everything but the function call
componentVars ==
    <<tiles, revealedTileIds, attempts, pendingHideTimeout, loading, error,
      pairsToFind, tileIdCounter, timerInterval, gameStartedAt,
      accumulatedSeconds, elapsedSeconds, timeouts, intervals, now,
      request, requestedPairs, destroyed, effectDirty, last, acceptedCount,
      columns, boardStyle, requestedColumns, layoutSeen, frames, viewport, resizes>>

\* no function is being called on its own
NoCall == [fn |-> "none"]

\* the start screen is not the page that is open
NoStart == [page |-> "none"]

\* The component's state as one record, so that a handler is a function on it.
St ==
    [tiles |-> tiles, revealedTileIds |-> revealedTileIds, attempts |-> attempts,
     pendingHideTimeout |-> pendingHideTimeout, loading |-> loading, error |-> error,
     pairsToFind |-> pairsToFind, tileIdCounter |-> tileIdCounter,
     timerInterval |-> timerInterval, gameStartedAt |-> gameStartedAt,
     accumulatedSeconds |-> accumulatedSeconds, elapsedSeconds |-> elapsedSeconds,
     timeouts |-> timeouts, intervals |-> intervals]

\* ------------------------------------------------------------ pure helpers

\* Array.prototype.find on the tile list: index of the first tile with this
\* id, 0 when there is none.
FindTile(tileList, tileId) ==
    IF \E i \in 1..Len(tileList) : tileList[i].id = tileId
    THEN CHOOSE i \in 1..Len(tileList) :
            /\ tileList[i].id = tileId
            /\ \A k \in 1..(i - 1) : tileList[k].id # tileId
    ELSE 0

\* window.setTimeout / window.setInterval return a handle no live timer has.
FreshHandle(s) ==
    LET used == s.timeouts \cup s.intervals \cup {s.pendingHideTimeout, s.timerInterval}
    IN  CHOOSE h \in 1..(Cardinality(used) + 1) :
            /\ h \notin used
            /\ \A k \in 1..(h - 1) : k \in used

\* allPairsFound without the length test
allPairsFoundOfEvery(tileList) ==
    \A i \in 1..Len(tileList) : tileList[i].state = "matched"

allPairsFoundOf(tileList) ==
    /\ Len(tileList) > 0
    /\ \A i \in 1..Len(tileList) : tileList[i].state = "matched"

allPairsFound == allPairsFoundOf(tiles)

\* The draws of Math.random() a session is set up with, as numerators r of
\* r / RandomResolution: the smallest and the largest value of the resolution.
RandomDraws == {0, RandomResolution - 1}

\* Math.floor(Math.random() * n) for the draw r / RandomResolution.
RandomIndex(r, n) == (r * n) \div RandomResolution

\* The index choices of one shuffle call on an array of length n under the
\* draw r: js[i] is the partner of (1-based) position i, in 1..i.
ShuffleIndices(n, r) == [i \in 1..n |-> RandomIndex(r, i) + 1]

\* The choices a session's shuffles are run with: one draw per call.
ShuffleChoices(n) == {ShuffleIndices(n, r) : r \in RandomDraws}

\* a swap that loses items[i]
SwapOverwrites(items, i, j) ==
    [items EXCEPT ![i] = items[j]]

Swap(items, i, j) ==
    [items EXCEPT ![i] = items[j], ![j] = items[i]]

\* for (i = length - 1; i > 0; i -= 1) swap items[i], items[j]   (1-based here)
RECURSIVE shuffleFrom(_, _, _)
shuffleFrom(items, i, js) ==
    IF i <= 1 THEN items
    ELSE shuffleFrom(Swap(items, i, js[i]), i - 1, js)

shuffle(items, js) == shuffleFrom(items, Len(items), js)

\* ------------------------------------------------------- layout sizes
Min(a, b) == IF a < b THEN a ELSE b

\* A size in px is a fraction num / den with den > 0: the tile sizes are
\* quotients of whole numbers, compared without rounding.

Frac(num, den) == [num |-> num, den |-> den]

FracLeq(a, b) == a.num * b.den <= b.num * a.den

FracMin(a, b) == IF FracLeq(a, b) THEN a ELSE b

FracMax(a, b) == IF FracLeq(a, b) THEN b ELSE a

\* value > 0
FracPositive(a) == a.num > 0

Max(a, b) == IF a > b THEN a ELSE b

clampColumns(value, totalTiles) ==
    LET minColumns == 2
        safeTotal  == Max(minColumns, totalTiles)
    IN  Min(Max(value, minColumns), safeTotal)

\* the computed signal rows, for the column count and the number of tiles
rows(columnCount, tileCount) ==
    IF columnCount <= 0 \/ tileCount = 0 THEN 0
    ELSE (tileCount + columnCount - 1) \div columnCount

\* Math.round(baseGapPx * scaling) with scaling 0.65, 0.8 or 1, clamped
resolveGap(columnCount) ==
    IF columnCount <= 0 THEN baseGapPx
    ELSE LET scaling100 == IF columnCount >= 10 THEN 65 ELSE IF columnCount >= 8 THEN 80 ELSE 100
             candidate  == (baseGapPx * scaling100 + 50) \div 100
         IN  Max(minGapPx, Min(maxGapPx, candidate))

\* updateBoardLayout that sizes the tiles by the width alone
updateBoardLayoutWidthOnly(columnCount, tileCount, availableWidth, availableHeight) ==
    LET rowCount == rows(columnCount, tileCount)
        gap == resolveGap(columnCount)
        widthLimitedSize == Frac(availableWidth - gap * Max(columnCount - 1, 0), columnCount)
        minSize == Frac(minTileSizePx, 1)
        t1 == widthLimitedSize
        t2 == IF ~FracPositive(t1)
              THEN (IF FracPositive(widthLimitedSize) THEN widthLimitedSize ELSE minSize)
              ELSE t1
        t3 == IF FracPositive(widthLimitedSize)
              THEN FracMin(FracMax(t2, minSize), widthLimitedSize)
              ELSE FracMax(t2, minSize)
    IN  IF columnCount = 0 \/ rowCount = 0 \/ availableWidth = 0
        THEN [published |-> FALSE]
        ELSE IF ~FracPositive(t3) THEN [published |-> FALSE]
        ELSE [published |-> TRUE, gap |-> gap, columns |-> columnCount,
              rows |-> rowCount, tileSize |-> t3]

\* updateBoardLayout that publishes nothing for a size that is not positive
updateBoardLayoutNoFallback(columnCount, tileCount, availableWidth, availableHeight) ==
    LET rowCount == rows(columnCount, tileCount)
        gap == resolveGap(columnCount)
        widthLimitedSize == Frac(availableWidth - gap * Max(columnCount - 1, 0), columnCount)
        heightLimitedSize == Frac(availableHeight - gap * Max(rowCount - 1, 0), rowCount)
        minSize == Frac(minTileSizePx, 1)
        t1 == IF availableHeight > 0 /\ FracPositive(heightLimitedSize)
              THEN FracMin(widthLimitedSize, heightLimitedSize)
              ELSE widthLimitedSize
        t3 == IF FracPositive(widthLimitedSize)
              THEN FracMin(FracMax(t1, minSize), widthLimitedSize)
              ELSE t1
    IN  IF columnCount = 0 \/ rowCount = 0 \/ availableWidth = 0
        THEN [published |-> FALSE]
        ELSE IF ~FracPositive(t3) THEN [published |-> FALSE]
        ELSE [published |-> TRUE, gap |-> gap, columns |-> columnCount,
              rows |-> rowCount, tileSize |-> t3]

\* updateBoardLayout that clamps to the smallest tile size only
updateBoardLayoutMinOnly(columnCount, tileCount, availableWidth, availableHeight) ==
    LET rowCount == rows(columnCount, tileCount)
        gap == resolveGap(columnCount)
        widthLimitedSize == Frac(availableWidth - gap * Max(columnCount - 1, 0), columnCount)
        heightLimitedSize == Frac(availableHeight - gap * Max(rowCount - 1, 0), rowCount)
        minSize == Frac(minTileSizePx, 1)
        t1 == IF availableHeight > 0 /\ FracPositive(heightLimitedSize)
              THEN FracMin(widthLimitedSize, heightLimitedSize)
              ELSE widthLimitedSize
        t2 == IF ~FracPositive(t1)
              THEN (IF FracPositive(widthLimitedSize) THEN widthLimitedSize ELSE minSize)
              ELSE t1
        t3 == FracMax(t2, minSize)
    IN  IF columnCount = 0 \/ rowCount = 0 \/ availableWidth = 0
        THEN [published |-> FALSE]
        ELSE IF ~FracPositive(t3) THEN [published |-> FALSE]
        ELSE [published |-> TRUE, gap |-> gap, columns |-> columnCount,
              rows |-> rowCount, tileSize |-> t3]

\* updateBoardLayout with the board element in place: the style it publishes
\* for the column count, the number of tiles, the parent's clientWidth and
\* the height left under the board's top.  All of these are whole numbers, so
\* no size is NaN or infinite.
updateBoardLayout(columnCount, tileCount, availableWidth, availableHeight) ==
    LET rowCount == rows(columnCount, tileCount)
        gap == resolveGap(columnCount)
        widthLimitedSize == Frac(availableWidth - gap * Max(columnCount - 1, 0), columnCount)
        heightLimitedSize == Frac(availableHeight - gap * Max(rowCount - 1, 0), rowCount)
        minSize == Frac(minTileSizePx, 1)
        t1 == IF availableHeight > 0 /\ FracPositive(heightLimitedSize)
              THEN FracMin(widthLimitedSize, heightLimitedSize)
              ELSE widthLimitedSize
        t2 == IF ~FracPositive(t1)
              THEN (IF FracPositive(widthLimitedSize) THEN widthLimitedSize ELSE minSize)
              ELSE t1
        t3 == IF FracPositive(widthLimitedSize)
              THEN FracMin(FracMax(t2, minSize), widthLimitedSize)
              ELSE FracMax(t2, minSize)
    IN  IF columnCount = 0 \/ rowCount = 0 \/ availableWidth = 0
        THEN [published |-> FALSE]
        ELSE IF ~FracPositive(t3) THEN [published |-> FALSE]
        ELSE [published |-> TRUE, gap |-> gap, columns |-> columnCount,
              rows |-> rowCount, tileSize |-> t3]

\* ------------------------------------------------------------- handlers
\* Each is the method of the same name as a function from the component's
\* state s to its state afterwards; Date.now() is the variable now.  The
\* component runs in a browser, so `typeof window === 'undefined'` is false.

\* setTileState that moves the changed tile to the end of the list
setTileStateReorders(s, tileId, state) ==
    [s EXCEPT !.tiles =
        SelectSeq(s.tiles, LAMBDA tile : tile.id # tileId)
        \o [i \in 1..Cardinality({k \in 1..Len(s.tiles) : s.tiles[k].id = tileId}) |->
                [s.tiles[FindTile(s.tiles, tileId)] EXCEPT !.state = state]]]

setTileState(s, tileId, state) ==
    [s EXCEPT !.tiles =
        [i \in 1..Len(s.tiles) |->
            IF s.tiles[i].id = tileId
            THEN [s.tiles[i] EXCEPT !.state = state]
            ELSE s.tiles[i]]]

\* clearPendingTimeout that forgets the handle without window.clearTimeout
clearPendingTimeoutKeepsScheduled(s) ==
    [s EXCEPT !.pendingHideTimeout = NULL]

clearPendingTimeout(s) ==
    IF s.pendingHideTimeout # NULL
    THEN [s EXCEPT !.timeouts = @ \ {s.pendingHideTimeout},
                   !.pendingHideTimeout = NULL]
    ELSE s

clearPendingState(s) ==
    [clearPendingTimeout(s) EXCEPT !.revealedTileIds = <<>>]

InSeq(x, seq) == \E k \in 1..Len(seq) : seq[k] = x

\* hideMismatchedTiles that does not empty revealedTileIds
hideMismatchedTilesKeepsIds(s) ==
    LET ids == s.revealedTileIds
        s1  == clearPendingTimeout(s)
    IN  IF Len(ids) = 0 THEN s1
        ELSE [s1 EXCEPT
                !.tiles =
                    [i \in 1..Len(s1.tiles) |->
                        IF InSeq(s1.tiles[i].id, ids) /\ s1.tiles[i].state = "visible"
                        THEN [s1.tiles[i] EXCEPT !.state = "hidden"]
                        ELSE s1.tiles[i]]]

hideMismatchedTiles(s) ==
    LET ids == s.revealedTileIds
        s1  == clearPendingTimeout(s)
    IN  IF Len(ids) = 0 THEN s1
        ELSE [s1 EXCEPT
                !.tiles =
                    [i \in 1..Len(s1.tiles) |->
                        IF InSeq(s1.tiles[i].id, ids) /\ s1.tiles[i].state = "visible"
                        THEN [s1.tiles[i] EXCEPT !.state = "hidden"]
                        ELSE s1.tiles[i]],
                !.revealedTileIds = <<>>]

\* evaluateRevealedTiles that marks only the first tile of a matching pair
evaluateRevealedTilesMatchesFirst(s) ==
    LET firstId  == s.revealedTileIds[1]
        secondId == s.revealedTileIds[2]
        first    == FindTile(s.tiles, firstId)
        second   == FindTile(s.tiles, secondId)
    IN  IF first = 0 \/ second = 0
        THEN [s EXCEPT !.revealedTileIds = <<>>]
        ELSE IF s.tiles[first].filename = s.tiles[second].filename
        THEN [setTileState(s, firstId, "matched") EXCEPT !.revealedTileIds = <<>>]
        ELSE LET h == FreshHandle(s)
             IN  [s EXCEPT !.pendingHideTimeout = h, !.timeouts = @ \cup {h}]

\* evaluateRevealedTiles that keeps the ids of a matched pair
evaluateRevealedTilesKeepsIds(s) ==
    LET firstId  == s.revealedTileIds[1]
        secondId == s.revealedTileIds[2]
        first    == FindTile(s.tiles, firstId)
        second   == FindTile(s.tiles, secondId)
    IN  IF first = 0 \/ second = 0
        THEN [s EXCEPT !.revealedTileIds = <<>>]
        ELSE IF s.tiles[first].filename = s.tiles[second].filename
        THEN setTileState(setTileState(s, firstId, "matched"), secondId, "matched")
        ELSE LET h == FreshHandle(s)
             IN  [s EXCEPT !.pendingHideTimeout = h, !.timeouts = @ \cup {h}]

\* evaluateRevealedTiles that starts no timer for a mismatched pair
evaluateRevealedTilesNoTimer(s) ==
    LET firstId  == s.revealedTileIds[1]
        secondId == s.revealedTileIds[2]
        first    == FindTile(s.tiles, firstId)
        second   == FindTile(s.tiles, secondId)
    IN  IF first = 0 \/ second = 0
        THEN [s EXCEPT !.revealedTileIds = <<>>]
        ELSE IF s.tiles[first].filename = s.tiles[second].filename
        THEN [setTileState(setTileState(s, firstId, "matched"), secondId, "matched")
                EXCEPT !.revealedTileIds = <<>>]
        ELSE s

\* evaluateRevealedTiles that starts the mismatch timer after a match as well
evaluateRevealedTilesAlwaysTimer(s) ==
    LET firstId  == s.revealedTileIds[1]
        secondId == s.revealedTileIds[2]
        first    == FindTile(s.tiles, firstId)
        second   == FindTile(s.tiles, secondId)
        h        == FreshHandle(s)
    IN  IF first = 0 \/ second = 0
        THEN [s EXCEPT !.revealedTileIds = <<>>]
        ELSE IF s.tiles[first].filename = s.tiles[second].filename
        THEN [setTileState(setTileState(s, firstId, "matched"), secondId, "matched")
                EXCEPT !.revealedTileIds = <<>>,
                       !.pendingHideTimeout = h, !.timeouts = @ \cup {h}]
        ELSE [s EXCEPT !.pendingHideTimeout = h, !.timeouts = @ \cup {h}]

evaluateRevealedTiles(s) ==
    LET firstId  == s.revealedTileIds[1]
        secondId == s.revealedTileIds[2]
        first    == FindTile(s.tiles, firstId)
        second   == FindTile(s.tiles, secondId)
    IN  IF first = 0 \/ second = 0
        THEN [s EXCEPT !.revealedTileIds = <<>>]
        ELSE IF s.tiles[first].filename = s.tiles[second].filename
        THEN [setTileState(setTileState(s, firstId, "matched"), secondId, "matched")
                EXCEPT !.revealedTileIds = <<>>]
        ELSE LET h == FreshHandle(s)
             IN  [s EXCEPT !.pendingHideTimeout = h, !.timeouts = @ \cup {h}]

\* startTimer showing a fresh count instead of the accumulated one
startTimerShowsZero(s) ==
    IF s.timerInterval # NULL THEN s
    ELSE LET h == FreshHandle(s)
         IN  [s EXCEPT
                !.gameStartedAt = IF @ = NULL THEN now ELSE @,
                !.elapsedSeconds = 0,
                !.timerInterval = h,
                !.intervals = @ \cup {h}]

startTimer(s) ==
    IF s.timerInterval # NULL THEN s
    ELSE LET h == FreshHandle(s)
         IN  [s EXCEPT
                !.gameStartedAt = IF @ = NULL THEN now ELSE @,
                !.elapsedSeconds = s.accumulatedSeconds,
                !.timerInterval = h,
                !.intervals = @ \cup {h}]

\* stopTimer that keeps the start timestamp
stopTimerKeepsStart(s) ==
    LET s1 == IF s.timerInterval # NULL
              THEN [s EXCEPT !.intervals = @ \ {s.timerInterval},
                             !.timerInterval = NULL]
              ELSE s
    IN  IF s1.gameStartedAt # NULL
        THEN LET elapsed == (now - s1.gameStartedAt) \div MsPerSecond
             IN  [s1 EXCEPT
                    !.accumulatedSeconds = @ + elapsed,
                    !.elapsedSeconds = s1.accumulatedSeconds + elapsed]
        ELSE s1

stopTimer(s) ==
    LET s1 == IF s.timerInterval # NULL
              THEN [s EXCEPT !.intervals = @ \ {s.timerInterval},
                             !.timerInterval = NULL]
              ELSE s
    IN  IF s1.gameStartedAt # NULL
        THEN LET elapsed == (now - s1.gameStartedAt) \div MsPerSecond
             IN  [s1 EXCEPT
                    !.accumulatedSeconds = @ + elapsed,
                    !.elapsedSeconds = s1.accumulatedSeconds + elapsed,
                    !.gameStartedAt = NULL]
        ELSE s1

resetTimer(s) ==
    [stopTimer(s) EXCEPT !.accumulatedSeconds = 0, !.elapsedSeconds = 0]

\* the callback startTimer hands to setInterval
timerTick(s) ==
    IF s.gameStartedAt = NULL THEN s
    ELSE [s EXCEPT !.elapsedSeconds =
            ((now - s.gameStartedAt) \div MsPerSecond) + s.accumulatedSeconds]

\* the guard turning away Visible tiles only
selectionAcceptedNotVisible(s, tileId) ==
    LET idx == FindTile(s.tiles, tileId)
    IN  /\ idx # 0
        /\ s.tiles[idx].state # "visible"
        /\ ~s.loading

\* the guard turning away Matched tiles only
selectionAcceptedNotMatched(s, tileId) ==
    LET idx == FindTile(s.tiles, tileId)
    IN  /\ idx # 0
        /\ s.tiles[idx].state # "matched"
        /\ ~s.loading

\* the guard of onTileSelected: the tile exists, is hidden, and loading is off
selectionAccepted(s, tileId) ==
    LET idx == FindTile(s.tiles, tileId)
    IN  /\ idx # 0
        /\ s.tiles[idx].state = "hidden"
        /\ ~s.loading

\* onTileSelected whose forced resolution leaves the old timeout scheduled
onTileSelectedKeepsOldTimeout(s, tileId) ==
    IF ~selectionAccepted(s, tileId) THEN s
    ELSE LET s1 == IF s.pendingHideTimeout # NULL
                   THEN [hideMismatchedTiles(s) EXCEPT !.timeouts = s.timeouts]
                   ELSE s
             s2 == startTimer(s1)
             s3 == setTileState(s2, tileId, "visible")
             s4 == [s3 EXCEPT !.revealedTileIds = Append(@, tileId)]
         IN  IF Len(s4.revealedTileIds) = 2
             THEN evaluateRevealedTiles([s4 EXCEPT !.attempts = @ + 1])
             ELSE s4

\* onTileSelected without the forced resolution of a pending pair
onTileSelectedNoInterrupt(s, tileId) ==
    IF ~selectionAccepted(s, tileId) THEN s
    ELSE LET s2 == startTimer(s)
             s3 == setTileState(s2, tileId, "visible")
             s4 == [s3 EXCEPT !.revealedTileIds = Append(@, tileId)]
         IN  IF Len(s4.revealedTileIds) = 2
             THEN evaluateRevealedTiles([s4 EXCEPT !.attempts = @ + 1])
             ELSE s4

\* onTileSelected counting every accepted reveal as an attempt
onTileSelectedCountsEveryReveal(s, tileId) ==
    IF ~selectionAccepted(s, tileId) THEN s
    ELSE LET s1 == IF s.pendingHideTimeout # NULL THEN hideMismatchedTiles(s) ELSE s
             s2 == startTimer(s1)
             s3 == setTileState(s2, tileId, "visible")
             s4 == [s3 EXCEPT !.revealedTileIds = Append(@, tileId),
                              !.attempts = @ + 1]
         IN  IF Len(s4.revealedTileIds) = 2
             THEN evaluateRevealedTiles(s4)
             ELSE s4

\* onTileSelected starting the clock before its guard
onTileSelectedStartsTimerFirst(s, tileId) ==
    IF ~selectionAccepted(s, tileId) THEN startTimer(s)
    ELSE LET s1 == IF s.pendingHideTimeout # NULL THEN hideMismatchedTiles(s) ELSE s
             s2 == startTimer(s1)
             s3 == setTileState(s2, tileId, "visible")
             s4 == [s3 EXCEPT !.revealedTileIds = Append(@, tileId)]
         IN  IF Len(s4.revealedTileIds) = 2
             THEN evaluateRevealedTiles([s4 EXCEPT !.attempts = @ + 1])
             ELSE s4

onTileSelected(s, tileId) ==
    IF ~selectionAccepted(s, tileId) THEN s
    ELSE LET s1 == IF s.pendingHideTimeout # NULL THEN hideMismatchedTiles(s) ELSE s
             s2 == startTimer(s1)
             s3 == setTileState(s2, tileId, "visible")
             s4 == [s3 EXCEPT !.revealedTileIds = Append(@, tileId)]
         IN  IF Len(s4.revealedTileIds) = 2
             THEN evaluateRevealedTiles([s4 EXCEPT !.attempts = @ + 1])
             ELSE s4

\* createTile numbering the two tiles of a pair alike
createTileSharedId(filename, id) ==
    [id |-> (id + 1) \div 2, filename |-> filename, state |-> "hidden"]

createTile(filename, id) ==
    [id |-> id, filename |-> filename, state |-> "hidden"]

\* setupGame that asks for one image only
setupGameNoMinimum(s, images, requested, js1, js2) ==
    LET availablePairs == Len(images)
    IN  IF availablePairs < 1
        THEN [s EXCEPT
                !.error = "This collection does not have enough images to play.",
                !.loading = FALSE]
        ELSE
        LET pairs == IF requested < availablePairs THEN requested ELSE availablePairs
            selectedImages == SubSeq(shuffle(images, js1), 1, pairs)
            totalTiles == pairs * 2
            created == [n \in 1..totalTiles |->
                            createTile(selectedImages[(n + 1) \div 2], n)]
            s1 == clearPendingState([s EXCEPT !.pairsToFind = pairs,
                                              !.tileIdCounter = totalTiles])
            s2 == [s1 EXCEPT !.tiles = shuffle(created, js2),
                             !.attempts = 0,
                             !.loading = FALSE]
        IN  resetTimer(s2)

\* setupGame that leaves the clock running on the new deck
setupGameStartsClock(s, images, requested, js1, js2) ==
    LET availablePairs == Len(images)
    IN  IF availablePairs < MinPairs
        THEN [s EXCEPT
                !.error = "This collection does not have enough images to play.",
                !.loading = FALSE]
        ELSE
        LET pairs == IF requested < availablePairs THEN requested ELSE availablePairs
            selectedImages == SubSeq(shuffle(images, js1), 1, pairs)
            totalTiles == pairs * 2
            created == [n \in 1..totalTiles |->
                            createTile(selectedImages[(n + 1) \div 2], n)]
            s1 == clearPendingState([s EXCEPT !.pairsToFind = pairs,
                                              !.tileIdCounter = totalTiles])
            s2 == [s1 EXCEPT !.tiles = shuffle(created, js2),
                             !.attempts = 0,
                             !.loading = FALSE]
        IN  startTimer(resetTimer(s2))

\* setupGame for the provider's images (a list of filenames) and the two
\* shuffles' index choices.  The column count and the layout request are
\* geometry: setupGameBoard.
setupGame(s, images, requested, js1, js2) ==
    LET availablePairs == Len(images)
    IN  IF availablePairs < MinPairs
        THEN [s EXCEPT
                !.error = "This collection does not have enough images to play.",
                !.loading = FALSE]
        ELSE
        LET pairs == IF requested < availablePairs THEN requested ELSE availablePairs
            selectedImages == SubSeq(shuffle(images, js1), 1, pairs)
            totalTiles == pairs * 2
            created == [n \in 1..totalTiles |->
                            createTile(selectedImages[(n + 1) \div 2], n)]
            s1 == clearPendingState([s EXCEPT !.pairsToFind = pairs,
                                              !.tileIdCounter = totalTiles])
            s2 == [s1 EXCEPT !.tiles = shuffle(created, js2),
                             !.attempts = 0,
                             !.loading = FALSE]
        IN  resetTimer(s2)

\* an onDestroy callback that stops the clock only
onDestroyKeepsTimeout(s) == stopTimer(s)

\* constructor's onDestroy callback
onDestroy(s) == stopTimer(clearPendingState(s))

\* an effect that leaves the clock alone
allPairsFoundEffectNoStop(s) == s

\* the effect on allPairsFound
allPairsFoundEffect(s) ==
    IF allPairsFoundOf(s.tiles) THEN stopTimer(s) ELSE s

\* The board's geometry as one record, so that a handler is a function on it.
Bd == [columns |-> columns, boardStyle |-> boardStyle, frames |-> frames]

\* scheduleBoardLayout: one more requestAnimationFrame callback is waiting
scheduleBoardLayout(b) == [b EXCEPT !.frames = @ + 1]

\* what setupGame does to the geometry: columns.set(clampColumns(...)) and a
\* layout request, for a collection with enough images
setupGameBoard(b, images, requested, requestedCols) ==
    LET availablePairs == Len(images)
        pairs      == Min(requested, availablePairs)
        totalTiles == pairs * 2
    IN  IF availablePairs < MinPairs THEN b
        ELSE scheduleBoardLayout(
                [b EXCEPT !.columns =
                    clampColumns(IF requestedCols = NULL THEN defaultTileColumns
                                 ELSE requestedCols,
                                 totalTiles)])

\* a resize handler that requests no layout
handleWindowResizeIgnored(b) == b

handleWindowResize(b) == scheduleBoardLayout(b)

\* the signals the layout effect would read if it read the tiles themselves
layoutEffectInputsOfTiles(cols, tileList) == <<cols, tileList>>

\* the values of the signals the layout effect reads: columns() and rows();
\* the effect runs again when one of them has changed
layoutEffectInputs(cols, tileList) == <<cols, rows(cols, Len(tileList))>>

\* the effect on columns and rows
layoutEffect(b, tileList) ==
    IF b.columns = 0 \/ rows(b.columns, Len(tileList)) = 0 THEN b
    ELSE scheduleBoardLayout(b)

\* the value boardStyle.set is called with
boardStyleOf(layout) ==
    [gap |-> layout.gap,
     gridTemplateColumns |-> <<layout.columns, layout.tileSize>>,
     gridAutoRows |-> layout.tileSize]

\* the requestAnimationFrame callback in the window vp: updateBoardLayout on
\* the values the signals and the window have now.  The board element is in
\* the view whenever there are tiles to lay out.
animationFrame(b, tileList, vp) ==
    LET layout == updateBoardLayout(b.columns, Len(tileList), vp.clientWidth,
                                    vp.innerHeight - vp.boardTop - vp.paddingBottom)
    IN  [b EXCEPT !.frames = @ - 1,
                  !.boardStyle = IF layout.published THEN boardStyleOf(layout) ELSE @]

\* ------------------------------------------------------------- actions

\* Publish a handler's result s as the next state; Commit also marks the
\* allPairsFound effect to run when the handler changed allPairsFound.
CommitState(s) ==
    /\ tiles' = s.tiles
    /\ revealedTileIds' = s.revealedTileIds
    /\ attempts' = s.attempts
    /\ pendingHideTimeout' = s.pendingHideTimeout
    /\ loading' = s.loading
    /\ error' = s.error
    /\ pairsToFind' = s.pairsToFind
    /\ tileIdCounter' = s.tileIdCounter
    /\ timerInterval' = s.timerInterval
    /\ gameStartedAt' = s.gameStartedAt
    /\ accumulatedSeconds' = s.accumulatedSeconds
    /\ elapsedSeconds' = s.elapsedSeconds
    /\ timeouts' = s.timeouts
    /\ intervals' = s.intervals

CommitBoard(b) ==
    /\ columns' = b.columns
    /\ boardStyle' = b.boardStyle
    /\ frames' = b.frames

Commit(s) ==
    /\ CommitState(s)
    /\ effectDirty' = (effectDirty \/ allPairsFoundOf(s.tiles) # allPairsFound)

\* the window a board is first shown in
DefaultViewport ==
    [clientWidth |-> 800, innerHeight |-> 600, boardTop |-> 120, paddingBottom |-> 16]

\* the windows a board is shown in and resized to: the parent's clientWidth,
\* window.innerHeight, the board's top and the container's bottom padding
Viewports ==
    { DefaultViewport,
      [clientWidth |-> 320, innerHeight |-> 100, boardTop |-> 120, paddingBottom |-> 16],
      [clientWidth |-> 0, innerHeight |-> 600, boardTop |-> 120, paddingBottom |-> 16] }

\* the values of the `columns` query parameter, as parsePositiveInt returns it
ColumnParams == {NULL, 0}

\* The state after the constructor and the first change detection ran, for
\* route parameters and a window from the given sets: the `pairs` and
\* `columns` parameters were parsed (NULL when absent or not a number); below
\* 2 pairs the constructor navigates away without loading, otherwise
\* loadCollection has sent the first request.  Both effects have had their
\* first run, which found no tiles, and ngAfterViewInit has requested the
\* first layout.
Constructed(pairsParams, columnsParams, viewports) ==
    /\ tiles = <<>>
    /\ revealedTileIds = <<>>
    /\ attempts = 0
    /\ pendingHideTimeout = NULL
    /\ loading = TRUE
    /\ error = NoError
    /\ pairsToFind = 0
    /\ tileIdCounter = 0
    /\ timerInterval = NULL
    /\ gameStartedAt = NULL
    /\ accumulatedSeconds = 0
    /\ elapsedSeconds = 0
    /\ timeouts = {}
    /\ intervals = {}
    /\ now = 0
    /\ requestedPairs \in pairsParams
    /\ request = IF requestedPairs = NULL \/ requestedPairs < MinPairs
                 THEN "none" ELSE "collections"
    /\ requestedColumns \in (IF request = "none" THEN {NULL} ELSE columnsParams)
    /\ destroyed = FALSE
    /\ effectDirty = FALSE
    /\ last = "none"
    /\ acceptedCount = 0
    /\ columns = defaultTileColumns
    /\ boardStyle = [gap |-> baseGapPx]
    /\ layoutSeen = layoutEffectInputs(defaultTileColumns, <<>>)
    /\ frames = 1
    /\ viewport \in viewports
    /\ resizes = 0
    /\ call = NoCall
    /\ start = NoStart

\* the sessions of every `pairs` parameter, without a `columns` parameter
Init == Constructed({NULL} \cup 0..MaxRequested, {NULL}, {DefaultViewport})

\* listCollections() answered and the collection is in the list
CollectionsLoaded ==
    /\ ~destroyed /\ request = "collections"
    /\ request' = "images"
    /\ UNCHANGED <<call, start, boardVars, progVars, now, requestedPairs, requestedColumns, destroyed, effectDirty, last, acceptedCount>>

\* listCollections() answered without the collection, or failed
CollectionsFailed ==
    /\ ~destroyed /\ request = "collections"
    /\ \E msg \in {"Collection not found.", "Unable to load collections."} :
          Commit([St EXCEPT !.error = msg, !.loading = FALSE])
    /\ request' = "none"
    /\ requestedPairs' = NULL
    /\ requestedColumns' = NULL
    /\ UNCHANGED <<call, start, boardVars, now, destroyed, last, acceptedCount>>

\* listCollectionImages() answered with k images: setupGame
ImagesLoaded ==
    /\ ~destroyed /\ request = "images"
    /\ \E k \in 0..MaxAvailable :
        LET images == [i \in 1..k |-> i]
            pairs  == IF requestedPairs < k THEN requestedPairs ELSE k
        IN  /\ \E js1 \in ShuffleChoices(k), js2 \in ShuffleChoices(2 * pairs) :
                    Commit(setupGame(St, images, requestedPairs, js1, js2))
            /\ CommitBoard(setupGameBoard(Bd, images, requestedPairs, requestedColumns))
    /\ request' = "none"
    /\ requestedPairs' = NULL
    /\ requestedColumns' = NULL
    /\ UNCHANGED <<call, start, layoutSeen, viewport, resizes, now, destroyed, last, acceptedCount>>

\* the error callback without loading.set(false)
ImagesFailedKeepsLoading ==
    /\ ~destroyed /\ request = "images"
    /\ Commit([St EXCEPT !.error = "Unable to load collection images."])
    /\ request' = "none"
    /\ requestedPairs' = NULL
    /\ requestedColumns' = NULL
    /\ UNCHANGED <<call, start, boardVars, now, destroyed, last, acceptedCount>>

\* listCollectionImages() failed
ImagesFailed ==
    /\ ~destroyed /\ request = "images"
    /\ Commit([St EXCEPT !.error = "Unable to load collection images.",
                         !.loading = FALSE])
    /\ request' = "none"
    /\ requestedPairs' = NULL
    /\ requestedColumns' = NULL
    /\ UNCHANGED <<call, start, boardVars, now, destroyed, last, acceptedCount>>

\* a tileSelected event with any id, also ids no tile has
TileSelected(tileId) ==
    /\ ~destroyed
    /\ onTileSelected(St, tileId).attempts <= MaxAttempts
    /\ Commit(onTileSelected(St, tileId))
    /\ last' = IF ~selectionAccepted(St, tileId) THEN "rejected"
               ELSE IF pendingHideTimeout # NULL THEN "interrupt"
               ELSE "accepted"
    /\ acceptedCount' = acceptedCount + (IF selectionAccepted(St, tileId) THEN 1 ELSE 0)
    /\ UNCHANGED <<call, start, boardVars, now, request, requestedPairs, requestedColumns, destroyed>>

\* the browser runs a scheduled mismatch timeout
HideTimeoutFires ==
    /\ \E h \in timeouts :
          Commit(hideMismatchedTiles([St EXCEPT !.timeouts = @ \ {h}]))
    /\ UNCHANGED <<call, start, boardVars, now, request, requestedPairs, requestedColumns, destroyed, last, acceptedCount>>

\* the browser runs the clock interval's callback
ClockTick ==
    /\ intervals # {}
    /\ Commit(timerTick(St))
    /\ UNCHANGED <<call, start, boardVars, now, request, requestedPairs, requestedColumns, destroyed, last, acceptedCount>>

\* the scheduled allPairsFound effect runs
RunEffect ==
    /\ ~destroyed /\ effectDirty
    /\ CommitState(allPairsFoundEffect(St))
    /\ effectDirty' = FALSE
    /\ UNCHANGED <<call, start, boardVars, now, request, requestedPairs, requestedColumns, destroyed, last, acceptedCount>>

\* the "new game" button
StartNewGame ==
    /\ ~destroyed
    /\ Commit(stopTimer(St))
    /\ UNCHANGED <<call, start, boardVars, now, request, requestedPairs, requestedColumns, destroyed, last, acceptedCount>>

\* the router leaves the page: the component is destroyed
Destroy ==
    /\ ~destroyed
    /\ Commit(onDestroy(St))
    /\ destroyed' = TRUE
    /\ request' = "none"
    /\ requestedPairs' = NULL
    /\ requestedColumns' = NULL
    /\ UNCHANGED <<call, start, boardVars, now, last, acceptedCount>>

\* wall-clock time passes
AdvanceTime ==
    /\ now + TimeStep <= MaxTime
    /\ now' = now + TimeStep
    /\ UNCHANGED <<call, start, boardVars, progVars, request, requestedPairs, requestedColumns, destroyed, effectDirty,
                   last, acceptedCount>>

\* a window:resize event, in a window of another size
Resize ==
    /\ ~destroyed
    /\ resizes < MaxResizes
    /\ resizes' = resizes + 1
    /\ viewport' \in Viewports \ {viewport}
    /\ CommitBoard(handleWindowResize(Bd))
    /\ UNCHANGED <<call, start, progVars, now, request, requestedPairs, requestedColumns,
                   destroyed, effectDirty, last, acceptedCount, layoutSeen>>

\* the effect on columns and rows runs again, one of them having changed
LayoutEffect ==
    /\ ~destroyed
    /\ layoutEffectInputs(columns, tiles) # layoutSeen
    /\ layoutSeen' = layoutEffectInputs(columns, tiles)
    /\ CommitBoard(layoutEffect(Bd, tiles))
    /\ UNCHANGED <<call, start, progVars, now, request, requestedPairs, requestedColumns,
                   destroyed, effectDirty, last, acceptedCount, viewport, resizes>>

\* the browser runs a requestAnimationFrame callback
AnimationFrame ==
    /\ frames > 0
    /\ CommitBoard(animationFrame(Bd, tiles, viewport))
    /\ UNCHANGED <<call, start, progVars, now, request, requestedPairs, requestedColumns,
                   destroyed, effectDirty, last, acceptedCount, layoutSeen, viewport,
                   resizes>>

Next ==
    \/ CollectionsLoaded
    \/ CollectionsFailed
    \/ ImagesLoaded
    \/ ImagesFailed
    \/ \E tileId \in 0..(tileIdCounter + 1) : TileSelected(tileId)
    \/ HideTimeoutFires
    \/ ClockTick
    \/ RunEffect
    \/ StartNewGame
    \/ Destroy
    \/ AdvanceTime

Spec == Init /\ [][Next]_vars

\* The board of a session requested with the smallest pair count, for every
\* `columns` parameter, opened in the default window: the steps that load
\* the session, change its tiles or tear it down, the resize events to every
\* other window, the layout effect and the animation frames.  The steps of
\* the session clock are left to Spec.
BoardInit == Constructed({MinPairs}, ColumnParams, {DefaultViewport})

BoardNext ==
    \/ CollectionsLoaded
    \/ CollectionsFailed
    \/ ImagesLoaded
    \/ ImagesFailed
    \/ \E tileId \in 0..(tileIdCounter + 1) : TileSelected(tileId)
    \/ HideTimeoutFires
    \/ Destroy
    \/ Resize
    \/ LayoutEffect
    \/ AnimationFrame

BoardSpec == BoardInit /\ [][BoardNext]_vars

\* The sessions requested with the smallest pair count, in which the browser
\* delivers the timers it has scheduled and a scheduled effect runs.
LiveInit == Init /\ requestedPairs = MinPairs

LiveSpec ==
    LiveInit /\ [][Next]_vars /\ WF_vars(HideTimeoutFires) /\ WF_vars(RunEffect)

\* ------------------------------------------------------ state vocabulary

TileIds == 1..tileIdCounter

StateOf(tileList, tileId) ==
    IF FindTile(tileList, tileId) = 0 THEN "missing"
    ELSE tileList[FindTile(tileList, tileId)].state

KeyOf(tileList, tileId) == tileList[FindTile(tileList, tileId)].filename

VisibleIds == {id \in TileIds : StateOf(tiles, id) = "visible"}

MatchedIds == {id \in TileIds : StateOf(tiles, id) = "matched"}

\* a mismatched pair is waiting for its timer
PendingMismatch ==
    /\ Len(revealedTileIds) = 2
    /\ pendingHideTimeout # NULL

\* ---------------------------------------------------------------- claims

\* C1: between event handlers at most 2 tiles are Visible.
C1_AtMostTwoVisible == Cardinality(VisibleIds) <= 2

C1_Witness == Cardinality(VisibleIds) = 2

\* C2: an accepted selection that is the second reveal of two tiles with the
\* same pair key ends with both tiles Matched, revealedTileIds empty and no
\* mismatch timer started.
C2_MatchIsImmediate ==
    [][\A id \in TileIds :
        (/\ ~loading
         /\ StateOf(tiles, id) = "hidden"
         /\ Len(revealedTileIds) = 1
         /\ pendingHideTimeout = NULL
         /\ KeyOf(tiles, revealedTileIds[1]) = KeyOf(tiles, id)
         /\ TileSelected(id))
        => (/\ StateOf(tiles', id) = "matched"
            /\ StateOf(tiles', revealedTileIds[1]) = "matched"
            /\ revealedTileIds' = <<>>
            /\ pendingHideTimeout' = NULL
            /\ timeouts' = timeouts)]_vars

C2_Witness ==
    /\ last = "accepted"
    /\ attempts = 1
    /\ Cardinality(MatchedIds) = 2
    /\ revealedTileIds = <<>>
    /\ timeouts = {}

\* C3: a Matched tile stays Matched in every later step.
C3_MatchedIsTerminal ==
    [][\A id \in TileIds :
        StateOf(tiles, id) = "matched" => StateOf(tiles', id) = "matched"]_vars

\* a pair was matched, and the latest selection forced a later mismatched
\* pair back to Hidden
C3_Witness ==
    /\ last = "interrupt"
    /\ MatchedIds # {}

\* C4: a pending mismatched pair stays Visible in every step that is neither
\* the timer's expiry nor the selection of a hidden tile; the timer's expiry
\* leaves both Hidden, revealedTileIds empty and no timer pending; the wait
\* never ends, other than by teardown, with one of the two not Hidden; and
\* with timers delivered the wait does end.
C4_MismatchRoundTrip ==
    /\ [][(/\ PendingMismatch
           /\ ~HideTimeoutFires
           /\ ~\E id \in TileIds :
                  StateOf(tiles, id) = "hidden" /\ TileSelected(id))
          => (/\ StateOf(tiles', revealedTileIds[1]) = "visible"
              /\ StateOf(tiles', revealedTileIds[2]) = "visible")]_vars
    /\ [][(PendingMismatch /\ HideTimeoutFires)
          => (/\ StateOf(tiles', revealedTileIds[1]) = "hidden"
              /\ StateOf(tiles', revealedTileIds[2]) = "hidden"
              /\ revealedTileIds' = <<>>
              /\ pendingHideTimeout' = NULL
              /\ timeouts' = {})]_vars
    /\ [][(/\ PendingMismatch
           /\ ~destroyed'
           /\ (revealedTileIds' # revealedTileIds \/ pendingHideTimeout' = NULL))
          => (/\ StateOf(tiles', revealedTileIds[1]) = "hidden"
              /\ StateOf(tiles', revealedTileIds[2]) = "hidden")]_vars
    /\ PendingMismatch ~> (destroyed \/ ~PendingMismatch)

\* two accepted selections that did not match, and the timer has expired
C4_Witness ==
    /\ ~destroyed
    /\ tiles # <<>>
    /\ acceptedCount = 2
    /\ attempts = 1
    /\ MatchedIds = {}
    /\ VisibleIds = {}
    /\ revealedTileIds = <<>>
    /\ pendingHideTimeout = NULL

\* C5: attempts counts the accepted selections that were a second reveal:
\* accepted selections alternate first reveal / second reveal, so attempts is
\* half their number, rounded down; nothing else moves it.
C5_AttemptsCountSecondReveals == attempts = acceptedCount \div 2

C5_Witness ==
    /\ attempts = 2
    /\ acceptedCount = 5

\* C6: selecting a Hidden tile while a mismatch timer is pending cancels the
\* timer, hides the pending pair and reveals the selected tile alone, without
\* counting an attempt.
C6_InterruptResolvesPending ==
    [][\A id \in TileIds :
        (/\ PendingMismatch
         /\ ~loading
         /\ StateOf(tiles, id) = "hidden"
         /\ TileSelected(id))
        => (/\ StateOf(tiles', revealedTileIds[1]) = "hidden"
            /\ StateOf(tiles', revealedTileIds[2]) = "hidden"
            /\ VisibleIds' = {id}
            /\ revealedTileIds' = <<id>>
            /\ attempts' = attempts
            /\ pendingHideTimeout' = NULL
            /\ pendingHideTimeout \notin timeouts')]_vars

C6_Witness ==
    /\ last = "interrupt"
    /\ revealedTileIds # <<>>
    /\ VisibleIds = {revealedTileIds[1]}
    /\ timeouts = {}

\* the selections the board must ignore
Rejectable(id) ==
    \/ tiles = <<>>
    \/ loading
    \/ StateOf(tiles, id) \in {"missing", "matched", "visible"}

\* C7: a rejected selection leaves tiles, revealedTileIds, attempts, the
\* mismatch timer and the clock as they were.
C7_RejectedSelectionIsNoOp ==
    [][\A id \in 0..(tileIdCounter + 1) :
        (Rejectable(id) /\ TileSelected(id))
        => UNCHANGED <<tiles, revealedTileIds, attempts, pendingHideTimeout, timeouts,
                       timerInterval, intervals, gameStartedAt, accumulatedSeconds,
                       elapsedSeconds, now>>]_vars

\* a selection was rejected while a mismatched pair was pending
C7_Witness ==
    /\ last = "rejected"
    /\ pendingHideTimeout # NULL
    /\ Cardinality(VisibleIds) = 2

\* C8 as stated: allPairsFound is true iff every tile is Matched.
C8_CompleteIffAllMatched ==
    allPairsFound <=> (\A i \in 1..Len(tiles) : tiles[i].state = "matched")

\* C8, amended: allPairsFound is true iff a deck has been built and each of
\* its 2 * pairsToFind tiles is Matched.
C8_CompleteIffDeckAllMatched ==
    allPairsFound <=> (pairsToFind >= MinPairs /\ Cardinality(MatchedIds) = 2 * pairsToFind)

C8_Witness ==
    /\ allPairsFound
    /\ Cardinality(MatchedIds) = Len(tiles)

ClockStopped ==
    /\ timerInterval = NULL
    /\ gameStartedAt = NULL
    /\ intervals = {}

\* C9: once every tile is Matched the clock is eventually stopped, and from
\* then on elapsedSeconds does not change.
C9_CompletionStopsClock ==
    /\ allPairsFound ~> ClockStopped
    /\ [][(allPairsFound /\ ClockStopped)
            => (ClockStopped' /\ elapsedSeconds' = elapsedSeconds)]_vars

\* the game was completed after at least a second of play and the clock stands
C9_Witness ==
    /\ allPairsFound
    /\ ClockStopped
    /\ ~destroyed
    /\ ~effectDirty
    /\ elapsedSeconds >= 1

\* C10: once every tile is Matched, a selection with any id changes neither
\* tiles, revealedTileIds, attempts nor the timers, and the clock stays stopped.
C10_CompletionIsIdempotent ==
    [][\A id \in 0..(tileIdCounter + 1) :
        (allPairsFound /\ TileSelected(id))
        => UNCHANGED <<tiles, revealedTileIds, attempts, pendingHideTimeout, timeouts,
                       timerInterval, intervals, gameStartedAt, accumulatedSeconds,
                       elapsedSeconds>>]_vars

\* a selection arrived after completion, with the clock stopped
C10_Witness ==
    /\ allPairsFound
    /\ last = "rejected"
    /\ ClockStopped
    /\ ~destroyed

\* C11: from the moment the deck is built until the first accepted reveal the
\* clock is not running and elapsedSeconds is 0, whatever selections were
\* rejected meanwhile; the first accepted reveal starts the clock at the
\* current time.
C11_ClockStartsOnFirstReveal ==
    /\ []((~loading /\ tiles # <<>> /\ acceptedCount = 0)
            => (ClockStopped /\ elapsedSeconds = 0 /\ accumulatedSeconds = 0))
    /\ [][\A id \in TileIds :
            (/\ acceptedCount = 0
             /\ ~loading
             /\ StateOf(tiles, id) = "hidden"
             /\ TileSelected(id))
            => (/\ timerInterval' # NULL
                /\ timerInterval' \in intervals'
                /\ gameStartedAt' = now)]_vars

\* the first reveal was accepted some time after the deck was built, and the
\* clock runs from that moment
C11_Witness ==
    /\ acceptedCount = 1
    /\ last = "accepted"
    /\ now > 0
    /\ gameStartedAt = now
    /\ timerInterval \in intervals

\* C12: after teardown no mismatch timeout and no clock interval is
\* outstanding, and no step changes tiles, revealedTileIds or elapsedSeconds.
C12_TeardownCancelsTimers ==
    /\ [](destroyed => (/\ timeouts = {}
                        /\ intervals = {}
                        /\ pendingHideTimeout = NULL
                        /\ timerInterval = NULL))
    /\ [][destroyed => UNCHANGED <<tiles, revealedTileIds, elapsedSeconds>>]_vars

\* the component was destroyed while a mismatched pair was waiting for its
\* timer and the clock had run for a second
C12_Witness ==
    /\ destroyed
    /\ Cardinality(VisibleIds) = 2
    /\ elapsedSeconds >= 1
    /\ timeouts = {}
    /\ intervals = {}

\* the provider's answer with k images, as ImagesLoaded receives it
ProviderImages(k) == [i \in 1..k |-> i]

\* deck has two Hidden tiles for each of n keys taken from images, and no two
\* tiles share an id
DeckWellBuilt(deck, images, n) ==
    LET keys == {deck[i].filename : i \in 1..Len(deck)}
    IN  /\ Len(deck) = 2 * n
        /\ \A i \in 1..Len(deck) : deck[i].state = "hidden"
        /\ \A i, j \in 1..Len(deck) : i # j => deck[i].id # deck[j].id
        /\ Cardinality(keys) = n
        /\ \A key \in keys :
            /\ \E m \in 1..Len(images) : images[m] = key
            /\ Cardinality({i \in 1..Len(deck) : deck[i].filename = key}) = 2

\* C13: for k >= 2 available pairs and a requested count p, setupGame builds
\* 2 * min(p, k) tiles, all Hidden, with distinct ids, each selected key on
\* exactly two tiles; and the deck a session is set up with is such a deck for
\* pairsToFind pairs, at most the requested count.
C13_DeckHasTwoTilesPerPair ==
    /\ [](\A k \in MinPairs..MaxAvailable, p \in MinPairs..MaxRequested :
            \A js1 \in ShuffleChoices(k), js2 \in ShuffleChoices(2 * Min(p, k)) :
                DeckWellBuilt(setupGame(St, ProviderImages(k), p, js1, js2).tiles,
                              ProviderImages(k), Min(p, k)))
    /\ [][(ImagesLoaded /\ tiles' # <<>>)
            => (/\ pairsToFind' >= MinPairs
                /\ pairsToFind' <= requestedPairs
                /\ pairsToFind' <= MaxAvailable
                /\ DeckWellBuilt(tiles', ProviderImages(MaxAvailable), pairsToFind'))]_vars

\* a deck was built from more pairs than were requested, and the tiles are
\* not in their order of creation
C13_Witness ==
    /\ ~loading
    /\ acceptedCount = 0
    /\ pairsToFind = MinPairs
    /\ Len(tiles) = 2 * MinPairs
    /\ \E i \in 1..Len(tiles) : tiles[i].filename > MinPairs
    /\ tiles[1].id # 1

\* C14 as stated: a request with any pair count is loaded, never turned away,
\* and the session it starts has at least 2 pairs.
C14_RequestsAreClampedNotRejected ==
    /\ (requestedPairs # NULL /\ ~destroyed) => request # "none"
    /\ tiles # <<>> => pairsToFind >= MinPairs

InsufficientContent == "This collection does not have enough images to play."

\* no session exists: nothing was built, counted, revealed or scheduled
NoSession ==
    /\ tiles = <<>>
    /\ attempts = 0
    /\ acceptedCount = 0
    /\ revealedTileIds = <<>>
    /\ pendingHideTimeout = NULL
    /\ timeouts = {}
    /\ ClockStopped

\* C15: with fewer than 2 images setupGame sets the error, ends loading and
\* builds nothing; and in every state with that error no session exists, so
\* the selections made meanwhile changed nothing.
C15_TooFewPairsIsAnError ==
    /\ [](request = "images" =>
            \A k \in 0..(MinPairs - 1) :
                \A js1 \in ShuffleChoices(k), js2 \in ShuffleChoices(2 * k) :
                    LET s == setupGame(St, ProviderImages(k), requestedPairs, js1, js2)
                    IN  /\ s.error = InsufficientContent
                        /\ ~s.loading
                        /\ s.tiles = <<>>
                        /\ s.attempts = 0
                        /\ s.timerInterval = NULL
                        /\ s.pendingHideTimeout = NULL
                        /\ s.timeouts = {} /\ s.intervals = {})
    /\ [](error = InsufficientContent => (~loading /\ NoSession))

\* a selection was made after the error was reported
C15_Witness ==
    /\ error = InsufficientContent
    /\ last = "rejected"
    /\ ~destroyed

\* C16: a failed fetch of the collections or of the images sets the error and
\* ends loading, and in every state with such an error no session exists.
C16_FetchFailureLeavesNoSession ==
    /\ [][(CollectionsFailed \/ ImagesFailed) => (error' # NoError /\ ~loading')]_vars
    /\ [](error \in {"Unable to load collections.", "Unable to load collection images."}
            => (~loading /\ NoSession))

\* the images' fetch failed, and a selection was made afterwards
C16_Witness ==
    /\ error = "Unable to load collection images."
    /\ last = "rejected"
    /\ ~destroyed

\* the two revealed tiles have different pair keys
RevealedMismatch ==
    /\ Len(revealedTileIds) = 2
    /\ KeyOf(tiles, revealedTileIds[1]) # KeyOf(tiles, revealedTileIds[2])

\* C21: revealedTileIds never holds more than 2 ids, and a mismatch timer is
\* pending (the handle is kept and the browser has it scheduled) exactly when
\* revealedTileIds holds 2 ids whose tiles have different pair keys.
C21_TimerPendingIffMismatch ==
    /\ Len(revealedTileIds) <= 2
    /\ (pendingHideTimeout # NULL) <=> RevealedMismatch
    /\ (timeouts # {}) <=> RevealedMismatch

\* a mismatched pair is waiting, after an earlier pair was matched
C21_Witness ==
    /\ RevealedMismatch
    /\ pendingHideTimeout \in timeouts
    /\ MatchedIds # {}

\* C22: at most one mismatch timeout is scheduled, it is the one whose handle
\* the component keeps, and a step that schedules a mismatch timeout starts
\* from a state with none scheduled: no timeout outlives its handle.
C22_OneMismatchTimer ==
    /\ [](Cardinality(timeouts) <= 1 /\ timeouts \subseteq {pendingHideTimeout})
    /\ [][(timeouts' \ timeouts # {})
            => (/\ timeouts' = {pendingHideTimeout'}
                /\ (timeouts # {} => \E id \in TileIds :
                        StateOf(tiles, id) = "hidden" /\ TileSelected(id)))]_vars

\* a second mismatched pair is waiting for its timer
C22_Witness ==
    /\ attempts = 2
    /\ PendingMismatch
    /\ timeouts = {pendingHideTimeout}
    /\ MatchedIds = {}

\* C23: with the wall clock never going back, elapsedSeconds does not
\* decrease in any step of a session (clock start, tick, stop, teardown
\* included); the one step that sets it to 0 is setupGame starting a session,
\* and the displayed count is never below the accumulated one.
C23_ElapsedNeverDecreases ==
    /\ [][now' >= now]_vars
    /\ [][~ImagesLoaded => elapsedSeconds' >= elapsedSeconds]_vars
    /\ [][ImagesLoaded => elapsedSeconds' = 0]_vars
    /\ [](elapsedSeconds >= accumulatedSeconds /\ accumulatedSeconds >= 0)

\* the clock was stopped after a whole second and started again
C23_Witness ==
    /\ elapsedSeconds = 1
    /\ accumulatedSeconds = 1
    /\ timerInterval \in intervals
    /\ gameStartedAt = now

\* C24: the clock runs exactly while it has a start timestamp and one
\* interval; stopTimer on a stopped clock and startTimer on a running clock
\* change nothing; a step that stops the clock adds the whole seconds since
\* its start to accumulatedSeconds and shows that total, a step that starts
\* it takes the current time as the start, and no other step but setupGame
\* changes accumulatedSeconds: the total is the sum of the running periods'
\* whole-second deltas.
C24_NoDoubleCounting ==
    /\ []((timerInterval = NULL) <=> (gameStartedAt = NULL))
    /\ [](intervals = {timerInterval} \ {NULL})
    /\ [](timerInterval = NULL => stopTimer(St) = St)
    /\ [](timerInterval # NULL => startTimer(St) = St)
    /\ [](stopTimer(stopTimer(St)) = stopTimer(St))
    /\ [][(gameStartedAt # NULL /\ gameStartedAt' = NULL)
            => (/\ accumulatedSeconds' =
                      accumulatedSeconds + ((now - gameStartedAt) \div MsPerSecond)
                /\ elapsedSeconds' = accumulatedSeconds')]_vars
    /\ [][(gameStartedAt = NULL /\ gameStartedAt' # NULL)
            => (gameStartedAt' = now /\ UNCHANGED accumulatedSeconds)]_vars
    /\ [][(gameStartedAt # NULL /\ gameStartedAt' # NULL)
            => UNCHANGED <<gameStartedAt, timerInterval, intervals, accumulatedSeconds>>]_vars
    /\ [][(gameStartedAt = NULL /\ gameStartedAt' = NULL /\ ~ImagesLoaded)
            => UNCHANGED <<accumulatedSeconds, elapsedSeconds>>]_vars

\* the clock of a running game was stopped after a whole second by the new
\* game button, where stopTimer can be called again
C24_Witness ==
    /\ accumulatedSeconds = 1
    /\ elapsedSeconds = 1
    /\ timerInterval = NULL
    /\ gameStartedAt = NULL
    /\ ~destroyed
    /\ ~allPairsFound

\* the ids in revealedTileIds
RevealedIds == {revealedTileIds[k] : k \in 1..Len(revealedTileIds)}

\* C30: until the component is torn down, the tiles in state Visible are
\* exactly the tiles whose ids are in revealedTileIds, and no id is in
\* revealedTileIds twice.
C30_VisibleAreTheRevealed ==
    ~destroyed =>
        /\ VisibleIds = RevealedIds
        /\ \A i, k \in 1..Len(revealedTileIds) :
                revealedTileIds[i] = revealedTileIds[k] => i = k

\* a selection hid a waiting pair and revealed a third tile
C30_Witness ==
    /\ last = "interrupt"
    /\ ~destroyed
    /\ Len(revealedTileIds) = 1
    /\ VisibleIds = {revealedTileIds[1]}
    /\ Cardinality({id \in TileIds : StateOf(tiles, id) = "hidden"}) = Len(tiles) - 1

\* tiles().filter((tile) => tile.state === 'matched').length
matchedTileCount(tileList) ==
    Cardinality({i \in 1..Len(tileList) : tileList[i].state = "matched"})

\* the matchedPairs signal: half the number of matched tiles, as the
\* fraction <<numerator, denominator>> the division yields
matchedPairsOf(tileList) == <<matchedTileCount(tileList), 2>>

matchedPairs == matchedPairsOf(tiles)

\* the pair keys of which every tile is matched
FullyMatchedKeys ==
    {key \in {tiles[i].filename : i \in 1..Len(tiles)} :
        \A i \in 1..Len(tiles) : tiles[i].filename = key => tiles[i].state = "matched"}

\* C31: between handlers the number of matched tiles is even, every matched
\* tile has exactly one partner with its pair key and that partner is
\* matched too, so that matchedPairs is the whole number of fully matched
\* keys, and matchedPairs is at most attempts.
C31_MatchedTilesComeInPairs ==
    /\ matchedPairs[1] % matchedPairs[2] = 0
    /\ \A i \in 1..Len(tiles) :
          tiles[i].state = "matched" =>
              /\ Cardinality({k \in 1..Len(tiles) : tiles[k].filename = tiles[i].filename}) = 2
              /\ \A k \in 1..Len(tiles) :
                    tiles[k].filename = tiles[i].filename => tiles[k].state = "matched"
    /\ matchedPairs[1] = matchedPairs[2] * Cardinality(FullyMatchedKeys)
    /\ matchedPairs[1] <= matchedPairs[2] * attempts

\* one pair was matched after a mismatch, and other tiles are still hidden
C31_Witness ==
    /\ matchedPairs = <<2, 2>>
    /\ attempts = 2
    /\ \E i \in 1..Len(tiles) : tiles[i].state = "hidden"

\* the positions whose tile has another state after the step
ChangedTiles == {i \in 1..Len(tiles) : tiles'[i].state # tiles[i].state}

\* C32: once the deck is built no step changes the number of tiles, their
\* order, their ids or their pair keys: a tile differs from the tile that
\* was at its position in its state at most.  An accepted selection changes
\* the state of at most three tiles.
C32_OnlyTileStatesChange ==
    [][ tiles # <<>> =>
            /\ Len(tiles') = Len(tiles)
            /\ \A i \in 1..Len(tiles) :
                  tiles'[i] = [tiles[i] EXCEPT !.state = tiles'[i].state]
            /\ acceptedCount' # acceptedCount => Cardinality(ChangedTiles) <= 3
      ]_vars

\* a selection has interrupted a mismatched pair: the pair is hidden again
\* and the selected tile is the only visible one
C32_Witness ==
    /\ last = "interrupt"
    /\ Len(revealedTileIds) = 1
    /\ Cardinality(VisibleIds) = 1
    /\ MatchedIds = {}
    /\ Len(tiles) > 3

\* ------------------------------------------- functions called on their own

\* The component's variables while a function is called on its own: as the
\* constructor leaves them when it has nothing to load.
NoComponent ==
    /\ tiles = <<>>
    /\ revealedTileIds = <<>>
    /\ attempts = 0
    /\ pendingHideTimeout = NULL
    /\ loading = TRUE
    /\ error = NoError
    /\ pairsToFind = 0
    /\ tileIdCounter = 0
    /\ timerInterval = NULL
    /\ gameStartedAt = NULL
    /\ accumulatedSeconds = 0
    /\ elapsedSeconds = 0
    /\ timeouts = {}
    /\ intervals = {}
    /\ now = 0
    /\ requestedPairs = NULL
    /\ request = "none"
    /\ destroyed = FALSE
    /\ effectDirty = FALSE
    /\ last = "none"
    /\ acceptedCount = 0
    /\ columns = defaultTileColumns
    /\ boardStyle = [gap |-> baseGapPx]
    /\ requestedColumns = NULL
    /\ layoutSeen = layoutEffectInputs(defaultTileColumns, <<>>)
    /\ frames = 0
    /\ viewport = DefaultViewport
    /\ resizes = 0

\* the arrays shuffle is called with: every array of up to MaxShuffleLen
\* items, repeated items included
ShuffleInputs == UNION {[1..n -> 1..n] : n \in 0..MaxShuffleLen}

\* every sequence of index choices of one shuffle call on n items: the choice
\* for (1-based) position i is any of 1..i
AllShuffleIndices(n) == {js \in [1..n -> 1..n] : \A i \in 1..n : js[i] <= i}

ShuffleInit ==
    /\ NoComponent
    /\ start = NoStart
    /\ call \in {[fn |-> "shuffle", items |-> items, js |-> js,
                  done |-> FALSE, result |-> <<>>] :
                    items \in ShuffleInputs, js \in AllShuffleIndices(MaxShuffleLen)}
    /\ \A i \in 1..MaxShuffleLen : i > Len(call.items) => call.js[i] = 1

\* shuffle runs on the array with the choices drawn
ShuffleReturns ==
    /\ call.fn = "shuffle"
    /\ ~call.done
    /\ call' = [call EXCEPT !.done = TRUE, !.result = shuffle(call.items, call.js)]
    /\ UNCHANGED <<componentVars, start>>

ShuffleNext == ShuffleReturns

ShuffleSpec == ShuffleInit /\ [][ShuffleNext]_vars

\* number of positions of seq holding v
CountOf(seq, v) == Cardinality({i \in 1..Len(seq) : seq[i] = v})

\* the rearrangements of items
PermutationsOf(items) ==
    LET n == Len(items)
    IN  {[i \in 1..n |-> items[f[i]]] :
            f \in {g \in [1..n -> 1..n] : \A a, b \in 1..n : a # b => g[a] # g[b]}}

\* C17: whatever indices are drawn, shuffle returns an array of the same
\* length holding each item as often as the input does; and every
\* rearrangement of the input is returned for some sequence of draws.
C17_ShuffleIsPermutation ==
    (call.fn = "shuffle" /\ call.done) =>
        /\ Len(call.result) = Len(call.items)
        /\ \A v \in 1..MaxShuffleLen :
              CountOf(call.result, v) = CountOf(call.items, v)
        /\ \A target \in PermutationsOf(call.items) :
              \E js \in AllShuffleIndices(MaxShuffleLen) :
                  shuffle(call.items, js) = target

\* an array with a repeated item came back rearranged
C17_Witness ==
    /\ call.fn = "shuffle"
    /\ call.done
    /\ Len(call.items) = MaxShuffleLen
    /\ \E i, j \in 1..Len(call.items) : i # j /\ call.items[i] = call.items[j]
    /\ call.result # call.items

\* ------------------------------------------------- the markdown renderer
\* GameTileComponent's renderer.  A string is the sequence of its characters,
\* each a one-character string.

LowerSeq ==
    <<"a", "b", "c", "d", "e", "f", "g", "h", "i", "j", "k", "l", "m",
      "n", "o", "p", "q", "r", "s", "t", "u", "v", "w", "x", "y", "z">>

UpperSeq ==
    <<"A", "B", "C", "D", "E", "F", "G", "H", "I", "J", "K", "L", "M",
      "N", "O", "P", "Q", "R", "S", "T", "U", "V", "W", "X", "Y", "Z">>

LowerLetters == {LowerSeq[k] : k \in 1..Len(LowerSeq)}

UpperLetters == {UpperSeq[k] : k \in 1..Len(UpperSeq)}

DigitChars == <<"0", "1", "2", "3", "4", "5", "6", "7", "8", "9">>

Digits == {DigitChars[d] : d \in 1..10}

\* \w of a regular expression
WordChars == LowerLetters \cup UpperLetters \cup Digits \cup {"_"}

\* [\w#+-] of codeFencePattern
FenceLangChars == WordChars \cup {"#", "+", "-"}

\* the characters `.` does not match
LineTerminators == {"\n", "\r"}

\* the characters String.prototype.trim removes
WhiteSpace == {" ", "\t", "\n", "\r"}

\* String.prototype.toLowerCase on one character
toLowerCase(c) ==
    IF c \in UpperLetters
    THEN LowerSeq[CHOOSE k \in 1..Len(UpperSeq) : UpperSeq[k] = c]
    ELSE c

\* the leftmost of a non-empty set of positions
Leftmost(positions) == CHOOSE j \in positions : \A k \in positions : j <= k

\* pat occurs in s at position i
StartsWithAt(s, i, pat) ==
    /\ i + Len(pat) - 1 <= Len(s)
    /\ \A k \in 1..Len(pat) : s[i + k - 1] = pat[k]

\* first position from i on whose character is not in chars; Len(s) + 1 when
\* there is none
RunEnd(s, i, chars) ==
    LET stops == {j \in i..Len(s) : s[j] \notin chars}
    IN  IF i > Len(s) THEN i
        ELSE IF stops = {} THEN Len(s) + 1
        ELSE Leftmost(stops)

\* first position from i on where pat occurs; 0 when there is none
FindFrom(s, i, pat) ==
    LET hits == {j \in i..(Len(s) - Len(pat) + 1) : StartsWithAt(s, j, pat)}
    IN  IF hits = {} THEN 0 ELSE Leftmost(hits)

\* value.replace(/pat/g, rep) for a literal pat
RECURSIVE replaceLiteralFrom(_, _, _, _)
replaceLiteralFrom(s, i, pat, rep) ==
    LET at == FindFrom(s, i, pat)
    IN  IF at = 0 THEN SubSeq(s, i, Len(s))
        ELSE SubSeq(s, i, at - 1) \o rep \o replaceLiteralFrom(s, at + Len(pat), pat, rep)

replaceLiteral(s, pat, rep) == replaceLiteralFrom(s, 1, pat, rep)

\* an escapeHtml that leaves `<` as it is
escapeHtmlKeepsLt(value) ==
    LET amp  == replaceLiteral(value, <<"&">>, <<"&", "a", "m", "p", ";">>)
        gt   == replaceLiteral(amp, <<">">>, <<"&", "g", "t", ";">>)
        quot == replaceLiteral(gt, <<"\"">>, <<"&", "q", "u", "o", "t", ";">>)
    IN  replaceLiteral(quot, <<"'">>, <<"&", "#", "3", "9", ";">>)

escapeHtml(value) ==
    LET amp  == replaceLiteral(value, <<"&">>, <<"&", "a", "m", "p", ";">>)
        lt   == replaceLiteral(amp, <<"<">>, <<"&", "l", "t", ";">>)
        gt   == replaceLiteral(lt, <<">">>, <<"&", "g", "t", ";">>)
        quot == replaceLiteral(gt, <<"\"">>, <<"&", "q", "u", "o", "t", ";">>)
    IN  replaceLiteral(quot, <<"'">>, <<"&", "#", "3", "9", ";">>)

\* String.prototype.trim
RECURSIVE trimEnd(_)
trimEnd(s) ==
    IF Len(s) > 0 /\ s[Len(s)] \in WhiteSpace THEN trimEnd(SubSeq(s, 1, Len(s) - 1))
    ELSE s

trim(s) == trimEnd(SubSeq(s, RunEnd(s, 1, WhiteSpace), Len(s)))

\* the characters of s that are in chars, in order
RECURSIVE keepChars(_, _)
keepChars(s, chars) ==
    IF Len(s) = 0 THEN <<>>
    ELSE (IF s[1] \in chars THEN <<s[1]>> ELSE <<>>) \o keepChars(Tail(s), chars)

\* [a-z0-9+#-], the characters normalizeLanguage keeps
LanguageChars == LowerLetters \cup Digits \cup {"+", "#", "-"}

normalizeLanguage(value) ==
    LET trimmed == [i \in 1..Len(trim(value)) |-> toLowerCase(trim(value)[i])]
    IN  keepChars(trimmed, LanguageChars)

\* code.replace(/\n+$/, '')
RECURSIVE stripTrailingNewlines(_)
stripTrailingNewlines(code) ==
    IF Len(code) > 0 /\ code[Len(code)] = "\n"
    THEN stripTrailingNewlines(SubSeq(code, 1, Len(code) - 1))
    ELSE code

\* the decimal digits of n, and Number() of a string of digits
RECURSIVE Decimal(_)
Decimal(n) ==
    IF n < 10 THEN <<DigitChars[n + 1]>>
    ELSE Decimal(n \div 10) \o <<DigitChars[(n % 10) + 1]>>

DigitValue(c) == CHOOSE d \in 0..9 : DigitChars[d + 1] = c

RECURSIVE NumberOf(_)
NumberOf(digits) ==
    IF Len(digits) = 0 THEN 0
    ELSE NumberOf(SubSeq(digits, 1, Len(digits) - 1)) * 10 + DigitValue(digits[Len(digits)])

\* the backtick character, which a string literal here cannot hold
Backtick == "BACKTICK"

Ticks3 == <<Backtick, Backtick, Backtick>>

Stars2 == <<"*", "*">>

PlaceholderHead ==
    <<"_", "_", "C", "O", "D", "E", "_", "B", "L", "O", "C", "K", "_">>

\* `__CODE_BLOCK_${n}__`
Placeholder(n) == PlaceholderHead \o Decimal(n) \o <<"_", "_">>

\* `<pre><code${safeLang ? ` class="language-${safeLang}"` : ''}>${escapedCode}</code></pre>`
CodeHtml(safeLang, escapedCode) ==
    <<"<", "p", "r", "e", ">", "<", "c", "o", "d", "e">>
    \o (IF Len(safeLang) > 0
        THEN <<" ", "c", "l", "a", "s", "s", "=", "\"",
               "l", "a", "n", "g", "u", "a", "g", "e", "-">> \o safeLang \o <<"\"">>
        ELSE <<>>)
    \o <<">">> \o escapedCode
    \o <<"<", "/", "c", "o", "d", "e", ">", "<", "/", "p", "r", "e", ">">>

\* the match of codeFencePattern that starts at position i, if there is one:
\* three backticks, the longest run of language characters, a newline, and the
\* shortest text that three backticks follow
FenceAt(s, i) ==
    LET langEnd == RunEnd(s, i + 3, FenceLangChars)
        close   == IF langEnd <= Len(s) /\ s[langEnd] = "\n"
                   THEN FindFrom(s, langEnd + 1, Ticks3) ELSE 0
    IN  IF StartsWithAt(s, i, Ticks3) /\ close # 0
        THEN [found |-> TRUE, lang |-> SubSeq(s, i + 3, langEnd - 1),
              code |-> SubSeq(s, langEnd + 1, close - 1), next |-> close + 3]
        ELSE [found |-> FALSE]

\* the callback of the fence replacement, on the placeholders made so far
FenceHtml(lang, code) ==
    CodeHtml(normalizeLanguage(lang), escapeHtml(stripTrailingNewlines(code)))

\* normalized.replace(codeFencePattern, ...): the text with a placeholder for
\* each fence, and the placeholders' html
RECURSIVE replaceFencesFrom(_, _, _, _)
replaceFencesFrom(s, i, working, placeholders) ==
    LET starts == {j \in i..Len(s) : FenceAt(s, j).found}
        at     == Leftmost(starts)
        m      == FenceAt(s, at)
    IN  IF starts = {}
        THEN [working |-> working \o SubSeq(s, i, Len(s)), placeholders |-> placeholders]
        ELSE replaceFencesFrom(s, m.next,
                               working \o SubSeq(s, i, at - 1)
                                       \o Placeholder(Len(placeholders)),
                               Append(placeholders, FenceHtml(m.lang, m.code)))

\* working.replace(/\*\*(.+?)\*\*/g, '<strong>$1</strong>')
RECURSIVE replaceBoldFrom(_, _)
replaceBoldFrom(s, i) ==
    LET lengths(j) == {m \in 1..(Len(s) - j - 1) :
                          /\ \A k \in 1..m : s[j + 1 + k] \notin LineTerminators
                          /\ StartsWithAt(s, j + 2 + m, Stars2)}
        starts == {j \in i..Len(s) : StartsWithAt(s, j, Stars2) /\ lengths(j) # {}}
        at     == Leftmost(starts)
        m      == Leftmost(lengths(at))
    IN  IF starts = {} THEN SubSeq(s, i, Len(s))
        ELSE SubSeq(s, i, at - 1)
             \o <<"<", "s", "t", "r", "o", "n", "g", ">">>
             \o SubSeq(s, at + 2, at + 1 + m)
             \o <<"<", "/", "s", "t", "r", "o", "n", "g", ">">>
             \o replaceBoldFrom(s, at + 4 + m)

\* working.replace(/`([^`]+)`/g, '<code>$1</code>')
RECURSIVE replaceInlineCodeFrom(_, _)
replaceInlineCodeFrom(s, i) ==
    LET starts == {j \in i..Len(s) :
                      s[j] = Backtick /\ FindFrom(s, j + 1, <<Backtick>>) > j + 1}
        at     == Leftmost(starts)
        close  == FindFrom(s, at + 1, <<Backtick>>)
    IN  IF starts = {} THEN SubSeq(s, i, Len(s))
        ELSE SubSeq(s, i, at - 1)
             \o <<"<", "c", "o", "d", "e", ">">>
             \o SubSeq(s, at + 1, close - 1)
             \o <<"<", "/", "c", "o", "d", "e", ">">>
             \o replaceInlineCodeFrom(s, close + 1)

\* working.replace(/__CODE_BLOCK_(\d+)__/g, (_, index) => placeholders[Number(index)] ?? '')
RECURSIVE restorePlaceholdersFrom(_, _, _)
restorePlaceholdersFrom(s, i, placeholders) ==
    LET from(j) == j + Len(PlaceholderHead)
        to(j)   == RunEnd(s, from(j), Digits)
        starts  == {j \in i..Len(s) : /\ StartsWithAt(s, j, PlaceholderHead)
                                      /\ to(j) > from(j)
                                      /\ StartsWithAt(s, to(j), <<"_", "_">>)}
        at      == Leftmost(starts)
        index   == NumberOf(SubSeq(s, from(at), to(at) - 1))
    IN  IF starts = {} THEN SubSeq(s, i, Len(s))
        ELSE SubSeq(s, i, at - 1)
             \o (IF index < Len(placeholders) THEN placeholders[index + 1] ELSE <<>>)
             \o restorePlaceholdersFrom(s, to(at) + 2, placeholders)

\* transformMarkdown escaping the text before it takes the fences out
transformMarkdownEscapesFirst(source) ==
    LET normalized == replaceLiteral(source, <<"\r", "\n">>, <<"\n">>)
        escaped    == escapeHtml(normalized)
        fenced     == replaceFencesFrom(escaped, 1, <<>>, <<>>)
        bold       == replaceBoldFrom(fenced.working, 1)
        code       == replaceInlineCodeFrom(bold, 1)
        broken     == replaceLiteral(code, <<"\n">>, <<"<", "b", "r", " ", "/", ">">>)
    IN  restorePlaceholdersFrom(broken, 1, fenced.placeholders)

transformMarkdown(source) ==
    LET normalized == replaceLiteral(source, <<"\r", "\n">>, <<"\n">>)
        fenced     == replaceFencesFrom(normalized, 1, <<>>, <<>>)
        escaped    == escapeHtml(fenced.working)
        bold       == replaceBoldFrom(escaped, 1)
        code       == replaceInlineCodeFrom(bold, 1)
        broken     == replaceLiteral(code, <<"\n">>, <<"<", "b", "r", " ", "/", ">">>)
    IN  restorePlaceholdersFrom(broken, 1, fenced.placeholders)

renderMarkdown(source) == transformMarkdown(source)

\* the tile setter's markdownContent for a markdown card with content raw
markdownContent(raw) ==
    LET rendered == renderMarkdown(raw)
    IN  IF Len(rendered) > 0 /\ Len(trim(rendered)) > 0 THEN rendered
        ELSE escapeHtml(raw)

\* <script>alert(1)</script>
ScriptExample ==
    <<"<", "s", "c", "r", "i", "p", "t", ">",
      "a", "l", "e", "r", "t", "(", "1", ")",
      "<", "/", "s", "c", "r", "i", "p", "t", ">">>

\* The pieces markdown payloads are put together from: fence markers with and
\* without a language, the markers of bold and inline code, line ends, the
\* characters escapeHtml replaces, plain text, and a literal placeholder.
Segments ==
    << Ticks3 \o <<"\n">>,
       Ticks3 \o <<"C", "_", "\n">>,
       Ticks3,
       <<"\n">>,
       Stars2,
       <<Backtick>>,
       <<"&">>,
       <<"\"", "'">>,
       <<"x">>,
       ScriptExample,
       Placeholder(0),
       <<"\r", "\n">>,
       Stars2 \o <<"x">> \o Stars2,
       <<"x", "\n", "&">> >>

RECURSIVE Flatten(_)
Flatten(segs) ==
    IF Len(segs) = 0 THEN <<>>
    ELSE Segments[segs[1]] \o Flatten(Tail(segs))

\* the payloads: every sequence of up to MaxSegments pieces
Payloads == UNION {[1..n -> 1..Len(Segments)] : n \in 0..MaxSegments}

RenderInit ==
    /\ NoComponent
    /\ start = NoStart
    /\ call \in {[fn |-> "markdownContent", segments |-> segs, raw |-> Flatten(segs),
                  done |-> FALSE, result |-> <<>>] : segs \in Payloads}

\* the tile setter renders the card's content
RenderReturns ==
    /\ call.fn = "markdownContent"
    /\ ~call.done
    /\ call' = [call EXCEPT !.done = TRUE, !.result = markdownContent(call.raw)]
    /\ UNCHANGED <<componentVars, start>>

RenderNext == RenderReturns

RenderSpec == RenderInit /\ [][RenderNext]_vars

\* the characters markup is written with
MarkupChars == {"<", ">", "&", "\"", "'"}

\* what the renderer itself writes with those characters: its tags and the
\* five character references of escapeHtml
EmittedTokens ==
    { <<"<", "s", "t", "r", "o", "n", "g", ">">>,
      <<"<", "/", "s", "t", "r", "o", "n", "g", ">">>,
      <<"<", "c", "o", "d", "e", ">">>,
      <<"<", "/", "c", "o", "d", "e", ">">>,
      <<"<", "b", "r", " ", "/", ">">>,
      <<"<", "p", "r", "e", ">">>,
      <<"<", "/", "p", "r", "e", ">">>,
      <<"&", "a", "m", "p", ";">>,
      <<"&", "l", "t", ";">>,
      <<"&", "g", "t", ";">>,
      <<"&", "q", "u", "o", "t", ";">>,
      <<"&", "#", "3", "9", ";">> }

\* <code class="language-
CodeClassHead ==
    <<"<", "c", "o", "d", "e", " ", "c", "l", "a", "s", "s", "=", "\"",
      "l", "a", "n", "g", "u", "a", "g", "e", "-">>

\* from position i on, every markup character of out belongs to a tag or a
\* character reference the renderer writes
RECURSIVE OnlyEmittedMarkupFrom(_, _)
OnlyEmittedMarkupFrom(out, i) ==
    LET marks == {j \in i..Len(out) : out[j] \in MarkupChars}
        at    == Leftmost(marks)
    IN  IF marks = {} THEN TRUE
        ELSE IF \E tok \in EmittedTokens : StartsWithAt(out, at, tok)
        THEN OnlyEmittedMarkupFrom(out,
                at + Len(CHOOSE tok \in EmittedTokens : StartsWithAt(out, at, tok)))
        ELSE IF StartsWithAt(out, at, CodeClassHead)
        THEN LET to == RunEnd(out, at + Len(CodeClassHead), LanguageChars)
             IN  /\ to > at + Len(CodeClassHead)
                 /\ StartsWithAt(out, to, <<"\"", ">">>)
                 /\ OnlyEmittedMarkupFrom(out, to + 2)
        ELSE FALSE

\* &lt;script&gt;alert(1)&lt;/script&gt;
EscapedScriptExample ==
    <<"&", "l", "t", ";", "s", "c", "r", "i", "p", "t", "&", "g", "t", ";",
      "a", "l", "e", "r", "t", "(", "1", ")",
      "&", "l", "t", ";", "/", "s", "c", "r", "i", "p", "t", "&", "g", "t", ";">>

\* C18: in the rendered content of every payload each `<`, `>`, `&`, double
\* and single quote belongs to a tag or character reference written by the
\* renderer, so none of the input's markup is live; and the payload
\* <script>alert(1)</script> is rendered as its escaped text.
C18_NoInputMarkup ==
    (call.fn = "markdownContent" /\ call.done) =>
        /\ OnlyEmittedMarkupFrom(call.result, 1)
        /\ FindFrom(call.result, 1, <<"<", "s", "c", "r", "i", "p", "t">>) = 0
        /\ call.raw = ScriptExample => call.result = EscapedScriptExample

\* the script payload was rendered inside bold markers
C18_Witness ==
    /\ call.fn = "markdownContent"
    /\ call.done
    /\ call.segments = <<5, 10, 5>>
    /\ FindFrom(call.result, 1, EscapedScriptExample) # 0

\* one character escaped once
EntityOf(c) ==
    IF c = "&" THEN <<"&", "a", "m", "p", ";">>
    ELSE IF c = "<" THEN <<"&", "l", "t", ";">>
    ELSE IF c = ">" THEN <<"&", "g", "t", ";">>
    ELSE IF c = "\"" THEN <<"&", "q", "u", "o", "t", ";">>
    ELSE IF c = "'" THEN <<"&", "#", "3", "9", ";">>
    ELSE <<c>>

\* every character of s escaped once, and nothing else done to s
RECURSIVE EscapedOnce(_)
EscapedOnce(s) ==
    LET marks == {j \in 1..Len(s) : s[j] \in MarkupChars}
        at    == Leftmost(marks)
    IN  IF marks = {} THEN s
        ELSE SubSeq(s, 1, at - 1) \o EntityOf(s[at])
             \o EscapedOnce(SubSeq(s, at + 1, Len(s)))

\* the payload's pieces a..b are a fenced block: an opening marker, a body
\* that three backticks follow nowhere before its end, and the closing marker,
\* with no backtick before the block
IsFencedBlock(segs, a, b) ==
    LET body == replaceLiteral(Flatten(SubSeq(segs, a + 1, b - 1)),
                               <<"\r", "\n">>, <<"\n">>)
    IN  /\ a < b
        /\ segs[a] \in {1, 2}
        /\ segs[b] = 3
        /\ FindFrom(Flatten(SubSeq(segs, 1, a - 1)), 1, <<Backtick>>) = 0
        /\ FindFrom(body \o Ticks3, 1, Ticks3) = Len(body) + 1

\* what a fenced block has to be rendered as
ExpectedBlock(segs, a, b) ==
    LET body == replaceLiteral(Flatten(SubSeq(segs, a + 1, b - 1)),
                               <<"\r", "\n">>, <<"\n">>)
    IN  CodeHtml(IF segs[a] = 2 THEN <<"c">> ELSE <<>>,
                 EscapedOnce(stripTrailingNewlines(body)))

LiteralPlaceholders(segs) ==
    {p \in 1..Len(segs) :
        /\ Segments[segs[p]] = Placeholder(0)
        /\ \/ FindFrom(Flatten(SubSeq(segs, 1, p - 1)), 1, <<Backtick>>) = 0
           \/ FindFrom(Flatten(SubSeq(segs, p + 1, Len(segs))), 1, <<Backtick>>) = 0}

\* the places of pat in s
Occurrences(s, pat) == {j \in 1..Len(s) : StartsWithAt(s, j, pat)}

\* C35 as stated: a placeholder token written in the text outside every
\* fence is in the output as that text, neither replaced by the HTML of a
\* code block nor dropped: the output has the token at least as often as
\* the payload has it outside fences.
C35_LiteralPlaceholderIsKept ==
    (call.fn = "markdownContent" /\ call.done) =>
        Cardinality(Occurrences(call.result, Placeholder(0)))
            >= Cardinality(LiteralPlaceholders(call.segments))

\* ------------------------------------------------------ the board layout
\* the viewports the board is laid out in: the parent's clientWidth,
\* window.innerHeight, the board's top and the container's bottom padding
ClientWidths == {0, 20, 320, 800}

InnerHeights == {0, 100, 600}

BoardTops == {0, 120}

PaddingBottoms == {0, 16}

\* the column counts setupGame can set for a deck of pairs pairs; before a
\* deck is built the signal holds the default
ColumnCounts(pairs) ==
    IF pairs = 0 THEN {defaultTileColumns}
    ELSE {clampColumns(IF requested = NULL THEN defaultTileColumns ELSE requested,
                       2 * pairs) :
            requested \in {NULL} \cup 0..(2 * pairs + 1)}

LayoutInit ==
    /\ NoComponent
    /\ start = NoStart
    /\ \E pairs \in {0} \cup MinPairs..MaxLayoutPairs :
        call \in {[fn |-> "updateBoardLayout", tileCount |-> 2 * pairs,
                   columns |-> c, availableWidth |-> w, innerHeight |-> ih,
                   boardTop |-> top, paddingBottom |-> pad,
                   done |-> FALSE, result |-> [published |-> FALSE]] :
                    c \in ColumnCounts(pairs), w \in ClientWidths,
                    ih \in InnerHeights, top \in BoardTops, pad \in PaddingBottoms}

\* the animation frame runs updateBoardLayout
LayoutReturns ==
    /\ call.fn = "updateBoardLayout"
    /\ ~call.done
    /\ call' = [call EXCEPT
                  !.done = TRUE,
                  !.result = updateBoardLayout(call.columns, call.tileCount,
                                call.availableWidth,
                                call.innerHeight - call.boardTop - call.paddingBottom)]
    /\ UNCHANGED <<componentVars, start>>

LayoutNext == LayoutReturns

LayoutSpec == LayoutInit /\ [][LayoutNext]_vars

\* the least whole number of rows of c tiles that hold n tiles
CeilDiv(n, c) == CHOOSE r \in 0..n : r * c >= n /\ (r = 0 \/ (r - 1) * c < n)

\* a layout was computed for a deck, a column count and a positive width
LaidOut ==
    /\ call.fn = "updateBoardLayout"
    /\ call.done
    /\ call.tileCount > 0
    /\ call.columns > 0
    /\ call.availableWidth > 0

\* (availableWidth - gap * (c - 1)) / c of the call
WidthConstrained ==
    Frac(call.availableWidth - resolveGap(call.columns) * (call.columns - 1),
         call.columns)

\* C20 as stated: every layout for n > 0 tiles, c > 0 columns and a positive
\* width has rows = ceil(n / c) and a tile size of at most the
\* width-constrained size.
C20_TileSizeWithinWidth ==
    LaidOut =>
        /\ call.result.published
        /\ call.result.rows = CeilDiv(call.tileCount, call.columns)
        /\ FracLeq(call.result.tileSize, WidthConstrained)

\* C20, amended: every such layout has rows = ceil(n / c); its tile size is
\* at most the width-constrained size when that size is positive, and is the
\* smallest tile size otherwise; for 12 tiles in 4 columns, 800 wide and 600
\* high, rows is 3 and the tile size at most (800 - 3 * gap) / 4.
C20_TileSizeWithinPositiveWidth ==
    LaidOut =>
        /\ call.result.published
        /\ call.result.rows = CeilDiv(call.tileCount, call.columns)
        /\ IF FracPositive(WidthConstrained)
           THEN FracLeq(call.result.tileSize, WidthConstrained)
           ELSE call.result.tileSize = Frac(minTileSizePx, 1)
        /\ (/\ call.tileCount = 12 /\ call.columns = 4
            /\ call.availableWidth = 800 /\ call.innerHeight = 600)
           => (/\ call.result.rows = 3
               /\ FracLeq(call.result.tileSize,
                          Frac(800 - 3 * call.result.gap, 4)))

\* the layout of 12 tiles in 4 columns, 800 wide and 600 high
C20_Witness ==
    /\ LaidOut
    /\ call.tileCount = 12 /\ call.columns = 4
    /\ call.availableWidth = 800 /\ call.innerHeight = 600
    /\ call.result.published
    /\ call.result.rows = 3

\* two sizes are the same number
FracEq(a, b) == FracLeq(a, b) /\ FracLeq(b, a)

\* (availableHeight - gap * (rows - 1)) / rows of the call
HeightConstrained ==
    Frac((call.innerHeight - call.boardTop - call.paddingBottom)
            - resolveGap(call.columns) * (call.result.rows - 1),
         call.result.rows)

\* updateBoardLayout has returned
LayoutDone == call.fn = "updateBoardLayout" /\ call.done

\* C26: a layout published for a positive width-constrained size w has the
\* tile size min(max(min(w, h), 32), w), h being the height-constrained size
\* when it is positive and left out otherwise; so the tile size is w when w
\* is below 32, and never above w.
C26_WidthWins ==
    (LayoutDone /\ call.result.published /\ FracPositive(WidthConstrained)) =>
        LET w    == WidthConstrained
            h    == HeightConstrained
            base == IF FracPositive(h) THEN FracMin(w, h) ELSE w
            size == call.result.tileSize
            minSize == Frac(minTileSizePx, 1)
        IN  /\ FracEq(size, FracMin(FracMax(base, minSize), w))
            /\ FracLeq(size, w)
            /\ FracLeq(w, minSize) => FracEq(size, w)

\* 12 tiles in 2 columns, 800 wide with 464 of height left: the tiles take the
\* height-constrained size of 64, below the width-constrained 392
C26_Witness ==
    /\ LayoutDone
    /\ call.tileCount = 12 /\ call.columns = 2
    /\ call.availableWidth = 800
    /\ call.innerHeight = 600 /\ call.boardTop = 120 /\ call.paddingBottom = 16
    /\ call.result.published
    /\ FracEq(call.result.tileSize, Frac(64, 1))
    /\ FracEq(WidthConstrained, Frac(392, 1))

\* the inputs the layout cannot size tiles from: no column, no tile, or a
\* computed size that is not positive
DegenerateLayoutInput ==
    \/ call.columns <= 0
    \/ call.tileCount = 0
    \/ ~FracPositive(WidthConstrained)

\* C27 as stated: for every degenerate input updateBoardLayout returns and
\* publishes the tile size 32.
C27_DegenerateYieldsMinimum ==
    (LayoutDone /\ DegenerateLayoutInput) =>
        /\ call.result.published
        /\ FracEq(call.result.tileSize, Frac(minTileSizePx, 1))

\* C27, amended: updateBoardLayout returns for every input; with no tile (or
\* no column, or a parent 0 wide) it publishes nothing, and otherwise it
\* publishes a positive tile size, which is 32 when the width-constrained size
\* is not positive.
C27_DegenerateIsSafe ==
    LayoutDone =>
        IF call.columns <= 0 \/ call.tileCount = 0 \/ call.availableWidth = 0
        THEN call.result = [published |-> FALSE]
        ELSE /\ call.result.published
             /\ FracPositive(call.result.tileSize)
             /\ ~FracPositive(WidthConstrained)
                    => FracEq(call.result.tileSize, Frac(minTileSizePx, 1))

\* 4 tiles in 3 columns in a parent 20 wide: the gaps alone are wider, and
\* the tiles get the size 32
C27_Witness ==
    /\ LayoutDone
    /\ call.tileCount = 4 /\ call.columns = 3
    /\ call.availableWidth = 20
    /\ ~FracPositive(WidthConstrained)
    /\ call.result.published
    /\ call.result.tileSize = Frac(minTileSizePx, 1)

\* ------------------------------------------------ the board's geometry
\* Claims about BoardSpec.

\* the layout effect has a run waiting: a signal it reads has another value
\* than at its last run
LayoutEffectPending ==
    ~destroyed /\ layoutEffectInputs(columns, tiles) # layoutSeen

\* the layout updateBoardLayout computes from the columns, tiles and window
\* of the current state
LatestLayout ==
    updateBoardLayout(columns, Len(tiles), viewport.clientWidth,
                      viewport.innerHeight - viewport.boardTop - viewport.paddingBottom)

\* the style the component is constructed with
InitialBoardStyle == [gap |-> baseGapPx]

\* a step that changes the states of tiles and nothing else about them
TileStateStep ==
    /\ tiles' # tiles
    /\ Len(tiles') = Len(tiles)

\* C28: a layout is requested only by a resize event, by a step that changes
\* the number of tiles or the column count, or by the run of the effect that
\* such a change causes (the first request is the one of ngAfterViewInit, in
\* the initial state).  A step that only changes tile states requests no
\* layout, gives the layout effect no reason to run, and leaves boardStyle
\* and the column count as they are.
C28_LayoutOnlyOnGeometryChange ==
    [][ /\ frames' > frames =>
            \/ resizes' > resizes
            \/ Len(tiles') # Len(tiles)
            \/ columns' # columns
            \/ /\ LayoutEffectPending
               /\ layoutSeen' = layoutEffectInputs(columns, tiles)
               /\ layoutSeen[1] # layoutSeen'[1] \/ layoutSeen[2] # layoutSeen'[2]
        /\ TileStateStep =>
            /\ frames' = frames
            /\ boardStyle' = boardStyle
            /\ columns' = columns
            /\ LayoutEffectPending' => LayoutEffectPending
      ]_vars

\* tiles were revealed on a board whose layout was published and no layout
\* is requested or waiting
C28_Witness ==
    /\ ~destroyed
    /\ Len(revealedTileIds) = 1
    /\ \E i \in 1..Len(tiles) : tiles[i].state = "matched"
    /\ frames = 0
    /\ ~LayoutEffectPending
    /\ boardStyle # InitialBoardStyle

\* C29 as stated: once every requested layout callback has run, the
\* boardStyle of a board with tiles is the layout computed from the current
\* columns, tiles and window.
C29_SettledStyleIsLatestLayout ==
    (frames = 0 /\ tiles # <<>>) =>
        /\ LatestLayout.published
        /\ boardStyle = boardStyleOf(LatestLayout)

\* C29: once every requested layout callback has run, boardStyle is the
\* layout computed from the current columns, tiles and window whenever these
\* yield one, whatever the order of resizes, effect runs and callbacks was;
\* a board without tiles has the style it was constructed with.
C29_SettledStyleIsLatestPublishedLayout ==
    frames = 0 =>
        /\ LatestLayout.published => boardStyle = boardStyleOf(LatestLayout)
        /\ tiles = <<>> => boardStyle = InitialBoardStyle

\* the window was resized after a layout of the tiles was published, the
\* effect has run, and every callback has run
C29_Witness ==
    /\ frames = 0
    /\ resizes > 0
    /\ tiles # <<>>
    /\ layoutSeen = layoutEffectInputs(columns, tiles)
    /\ LatestLayout.published
    /\ boardStyle = boardStyleOf(LatestLayout)
    /\ boardStyle # boardStyleOf(updateBoardLayout(columns, Len(tiles),
            DefaultViewport.clientWidth,
            DefaultViewport.innerHeight - DefaultViewport.boardTop
                - DefaultViewport.paddingBottom))

\* ---------------------------------------------------- the elapsed display

\* value.toString().padStart(2, '0') for a whole number value >= 0, without
\* the padding
padNumberNoPad(value) == Decimal(value)

\* padNumber: value.toString().padStart(2, '0') for a whole number value >= 0
padNumber(value) ==
    LET text == Decimal(value)
    IN  IF Len(text) >= 2 THEN text
        ELSE [k \in 1..(2 - Len(text)) |-> "0"] \o text

formatElapsed(totalSeconds) ==
    LET safeSeconds == Max(0, totalSeconds)
        minutes     == safeSeconds \div 60
        seconds     == safeSeconds % 60
    IN  padNumber(minutes) \o <<":">> \o padNumber(seconds)

FormatInit ==
    /\ NoComponent
    /\ start = NoStart
    /\ call \in {[fn |-> "formatElapsed", totalSeconds |-> t,
                   done |-> FALSE, result |-> <<>>] :
                    t \in (-MaxFormatSeconds)..MaxFormatSeconds}

\* formattedElapsedTime is computed
FormatReturns ==
    /\ call.fn = "formatElapsed"
    /\ ~call.done
    /\ call' = [call EXCEPT !.done = TRUE,
                            !.result = formatElapsed(call.totalSeconds)]
    /\ UNCHANGED <<componentVars, start>>

FormatNext == FormatReturns

FormatSpec == FormatInit /\ [][FormatNext]_vars

\* C25: for whole seconds 0 <= s < 6000 formatElapsed(s) is five characters,
\* two digits, a colon and two digits, the first two reading floor(s / 60)
\* and the last two s mod 60; for negative s it is 00:00.
C25_FormatIsPaddedMinutesSeconds ==
    (call.fn = "formatElapsed" /\ call.done) =>
        LET s == call.totalSeconds
            r == call.result
        IN  /\ (0 <= s /\ s < 6000) =>
                  /\ Len(r) = 5
                  /\ r[3] = ":"
                  /\ \A k \in {1, 2, 4, 5} : r[k] \in Digits
                  /\ NumberOf(<<r[1], r[2]>>) = s \div 60
                  /\ NumberOf(<<r[4], r[5]>>) = s % 60
            /\ s < 0 => r = <<"0", "0", ":", "0", "0">>

\* 125 seconds are shown as 02:05
C25_Witness ==
    /\ call.fn = "formatElapsed"
    /\ call.done
    /\ call.totalSeconds = 125
    /\ call.result = <<"0", "2", ":", "0", "5">>

\* ------------------------------------------------------ the start screen
\* StartGameComponent: the collection list, the selected collection, pair
\* count and column count, and the navigation to the play route.  Each
\* handler is a function from the component's state t to its state
\* afterwards.  A number is a record: NaN, an infinity, or a finite value
\* counted in halves, so that Math.floor has something to round.

NaN == [kind |-> "NaN", halves |-> 0]
PosInfinity == [kind |-> "Infinity", halves |-> 0]
NegInfinity == [kind |-> "-Infinity", halves |-> 0]
Halves(h) == [kind |-> "finite", halves |-> h]
Whole(n) == Halves(2 * n)

\* Math.min(Math.max(Math.floor(value), low), high) for a value that is not
\* NaN and whole numbers low <= high
FloorClamp(value, low, high) ==
    IF value.kind = "Infinity" THEN high
    ELSE IF value.kind = "-Infinity" THEN low
    ELSE Min(Max(value.halves \div 2, low), high)

\* a signal holding a number or null, read as a condition
Truthy(n) == n # NULL /\ n # 0

\* no collection: the null of selectedCollection
NoCollection == [id |-> NULL, pair_count |-> 0]

\* router.navigate has not been called
NoRoute == [collectionId |-> NULL, pairs |-> NULL, columns |-> NULL]

\* the cap of defaultPairs
DefaultPairsCap == 16

clampPairs(value, maxPairs) ==
    LET safeMax == Max(2, maxPairs)
    IN  FloorClamp(value, 2, safeMax)

defaultPairs(maxPairs) ==
    LET playableMax == Max(2, maxPairs)
    IN  Min(DefaultPairsCap, playableMax)

\* StartGameComponent.clampColumns
startClampColumns(value, pairs) ==
    LET totalTiles == Max(2, pairs * 2)
        minColumns == 2
        maxColumns == Max(minColumns, totalTiles)
    IN  FloorClamp(value, minColumns, maxColumns)

defaultColumns(pairs) == startClampColumns(Whole(defaultTileColumns), pairs)

\* ensureColumnsAreValid that keeps a column count once there is one
ensureColumnsAreValidKeepsCurrent(t, pairs) ==
    [t EXCEPT !.selectedColumns =
        IF t.selectedColumns # NULL THEN t.selectedColumns
        ELSE defaultColumns(pairs)]

ensureColumnsAreValid(t, pairs) ==
    LET current == t.selectedColumns
    IN  [t EXCEPT !.selectedColumns =
            startClampColumns(IF current # NULL THEN Whole(current)
                              ELSE Whole(defaultColumns(pairs)),
                              pairs)]

canStart(t) ==
    /\ t.selectedCollection # NoCollection
    /\ t.selectedCollection.pair_count >= 2
    /\ Truthy(t.selectedPairs)
    /\ Truthy(t.selectedColumns)

selectCollection(t, collection) ==
    LET previousSelection == t.selectedCollection
        t1 == [t EXCEPT !.selectedCollection = collection]
    IN  IF collection.pair_count < 2
        THEN [t1 EXCEPT !.selectedPairs = NULL, !.selectedColumns = NULL]
        ELSE LET currentPairs ==
                    IF previousSelection # NoCollection
                       /\ previousSelection.id = collection.id
                       /\ t.selectedPairs # NULL
                    THEN t.selectedPairs
                    ELSE defaultPairs(collection.pair_count)
                 pairs == clampPairs(Whole(currentPairs), collection.pair_count)
                 t2 == [t1 EXCEPT !.selectedPairs = pairs]
                 t3 == IF previousSelection = NoCollection
                          \/ previousSelection.id # collection.id
                       THEN [t2 EXCEPT !.selectedColumns = NULL]
                       ELSE t2
             IN  ensureColumnsAreValid(t3, pairs)

\* onPairsChange for an event whose target.value converts to numericValue
onPairsChange(t, numericValue) ==
    LET collection == t.selectedCollection
    IN  IF collection = NoCollection THEN t
        ELSE IF numericValue = NaN THEN t
        ELSE LET pairs == clampPairs(numericValue, collection.pair_count)
             IN  ensureColumnsAreValid([t EXCEPT !.selectedPairs = pairs], pairs)

increasePairs(t, step) ==
    LET collection == t.selectedCollection
    IN  IF collection = NoCollection THEN t
        ELSE LET current == IF t.selectedPairs # NULL THEN t.selectedPairs ELSE 2
                 pairs == clampPairs(Whole(current + step), collection.pair_count)
             IN  ensureColumnsAreValid([t EXCEPT !.selectedPairs = pairs], pairs)

\* onColumnsChange for an event whose target.value converts to numericValue
onColumnsChange(t, numericValue) ==
    LET collection == t.selectedCollection
        pairs == t.selectedPairs
    IN  IF collection = NoCollection \/ ~Truthy(pairs) THEN t
        ELSE IF numericValue = NaN THEN t
        ELSE [t EXCEPT !.selectedColumns = startClampColumns(numericValue, pairs)]

increaseColumns(t, step) ==
    LET pairs == t.selectedPairs
    IN  IF ~Truthy(pairs) THEN t
        ELSE LET current == IF t.selectedColumns # NULL THEN t.selectedColumns
                            ELSE defaultColumns(pairs)
             IN  [t EXCEPT !.selectedColumns =
                     startClampColumns(Whole(current + step), pairs)]

startGame(t) ==
    LET collection == t.selectedCollection
        pairs == t.selectedPairs
        cols == t.selectedColumns
    IN  IF collection = NoCollection \/ ~Truthy(pairs) \/ ~Truthy(cols) THEN t
        ELSE [t EXCEPT !.navigated =
                [collectionId |-> collection.id, pairs |-> pairs, columns |-> cols]]

\* loadCollections up to the request it sends
loadCollections(t) ==
    [t EXCEPT !.loading = TRUE, !.error = NoError, !.listRequest = TRUE]

retry(t) == IF t.loading THEN t ELSE loadCollections(t)

\* payload.find((item) => item.pair_count >= 2) ?? payload[0]
firstPlayable(payload) ==
    IF \E i \in 1..Len(payload) : payload[i].pair_count >= 2
    THEN payload[CHOOSE i \in 1..Len(payload) :
                    /\ payload[i].pair_count >= 2
                    /\ \A k \in 1..(i - 1) : payload[k].pair_count < 2]
    ELSE payload[1]

\* the next callback of listCollections()
listCollectionsNext(t, payload) ==
    LET t1 == [t EXCEPT !.collections = payload, !.loading = FALSE,
                        !.listRequest = FALSE]
    IN  IF Len(payload) > 0 /\ t.selectedCollection = NoCollection
        THEN selectCollection(t1, firstPlayable(payload))
        ELSE t1

\* the error callback of listCollections()
listCollectionsError(t) ==
    [t EXCEPT !.loading = FALSE, !.listRequest = FALSE,
              !.error = "We could not load collections. Please try again."]

\* the pair counts of the small collections the server lists
PairCounts == 0..MaxPairCount

\* The lists the server answers with, as the pair counts of their
\* collections: up to MaxCollections small collections, or one collection
\* above the cap of defaultPairs.
ListedPairCounts ==
    UNION {[1..n -> PairCounts] : n \in 0..MaxCollections}
        \cup {<<DefaultPairsCap + 1>>}

CollectionsOf(counts) ==
    [i \in 1..Len(counts) |-> [id |-> i, pair_count |-> counts[i]]]

\* what Number(target.value) can be for the pairs and columns inputs
NumericValues ==
    {NaN, PosInfinity, NegInfinity} \cup {Halves(h) : h \in (-2)..(2 * MaxInput + 1)}

\* the steps the template's buttons pass
Steps == {-1, 1}

\* the component as constructed: the fields' initial values and the first
\* loadCollections()
StartInit ==
    /\ NoComponent
    /\ call = NoCall
    /\ start = loadCollections(
                  [page |-> "start", loading |-> TRUE, error |-> NoError,
                   collections |-> <<>>, selectedCollection |-> NoCollection,
                   selectedPairs |-> NULL, selectedColumns |-> NULL,
                   listRequest |-> FALSE, navigated |-> NoRoute])

\* the page is open: the router has not left it
OnStartScreen == start.navigated = NoRoute

CollectionsListed ==
    /\ OnStartScreen /\ start.listRequest
    /\ \E counts \in ListedPairCounts : start' = listCollectionsNext(start, CollectionsOf(counts))
    /\ UNCHANGED <<componentVars, call>>

CollectionsListFailed ==
    /\ OnStartScreen /\ start.listRequest
    /\ start' = listCollectionsError(start)
    /\ UNCHANGED <<componentVars, call>>

Retry ==
    /\ OnStartScreen
    /\ start' = retry(start)
    /\ UNCHANGED <<componentVars, call>>

SelectCollection ==
    /\ OnStartScreen
    /\ \E i \in 1..Len(start.collections) :
          start' = selectCollection(start, start.collections[i])
    /\ UNCHANGED <<componentVars, call>>

PairsChange ==
    /\ OnStartScreen
    /\ \E v \in NumericValues : start' = onPairsChange(start, v)
    /\ UNCHANGED <<componentVars, call>>

IncreasePairs ==
    /\ OnStartScreen
    /\ \E step \in Steps : start' = increasePairs(start, step)
    /\ UNCHANGED <<componentVars, call>>

ColumnsChange ==
    /\ OnStartScreen
    /\ \E v \in NumericValues : start' = onColumnsChange(start, v)
    /\ UNCHANGED <<componentVars, call>>

IncreaseColumns ==
    /\ OnStartScreen
    /\ \E step \in Steps : start' = increaseColumns(start, step)
    /\ UNCHANGED <<componentVars, call>>

StartGame ==
    /\ OnStartScreen
    /\ start' = startGame(start)
    /\ UNCHANGED <<componentVars, call>>

StartNext ==
    \/ CollectionsListed
    \/ CollectionsListFailed
    \/ Retry
    \/ SelectCollection
    \/ PairsChange
    \/ IncreasePairs
    \/ ColumnsChange
    \/ IncreaseColumns
    \/ StartGame

StartSpec == StartInit /\ [][StartNext]_vars

\* C33: on the start screen a selected pair count is at least 2 and at most
\* the larger of 2 and the selected collection's pair_count, and a selected
\* column count goes with a selected pair count and is at least 2 and at
\* most twice that pair count.
C33_SelectionWithinLimits ==
    start.page = "start" =>
        /\ start.selectedPairs # NULL =>
              /\ start.selectedCollection # NoCollection
              /\ 2 <= start.selectedPairs
              /\ start.selectedPairs <= Max(2, start.selectedCollection.pair_count)
        /\ start.selectedColumns # NULL =>
              /\ start.selectedPairs # NULL
              /\ 2 <= start.selectedColumns
              /\ start.selectedColumns <= 2 * start.selectedPairs

\* in a collection above the default cap the pair count was lowered to 2,
\* which brought the default of 6 columns down to the 4 tiles
C33_Witness ==
    /\ start.page = "start"
    /\ start.selectedCollection.pair_count > DefaultPairsCap
    /\ start.selectedPairs = 2
    /\ start.selectedColumns = 4

\* C34 as stated: the start screen has navigated to the play route only
\* from a state where canStart held; in particular the selected collection
\* has at least 2 pairs.
C34_NavigatesOnlyWhenCanStart ==
    (start.page = "start" /\ start.navigated # NoRoute) =>
        /\ canStart(start)
        /\ start.selectedCollection.pair_count >= 2

====
